---- MODULE Spec2Model ----
(***************************************************************************)
(* Smart POS billing system: the transaction computation, persistence and  *)
(* daily aggregation pipeline of pos_logic.py / billing_core.py /          *)
(* coffeebot.py (three copies of the core) and admin.py (the aggregator).  *)
(*                                                                         *)
(* Representation.                                                         *)
(*  - A Python str is a sequence of one-character strings, so that strip,  *)
(*    split, rsplit, startswith, int(), float() and the "%.2f" format are  *)
(*    computed character by character.                                     *)
(*  - The sales file is  exists  (the path exists) and  store  (the rows   *)
(*    csv.reader yields for its content, each row a sequence of fields).   *)
(*    The line syntax of a row (delimiters, quoting) belongs to the csv    *)
(*    library and is not modelled; a zero-length file is store = <<>>.     *)
(*  - A float amount is an exact decimal, held as an integer number of     *)
(*    mills (1/1000 of the currency unit); round(x, 2) is round-half-even  *)
(*    on that decimal.  The last-bit effects of binary floating point are  *)
(*    outside the model.                                                   *)
(*  - frontend  is the program that calls the core ("cli" for cli_app.py,  *)
(*    "gui" for gui.py, "direct" for any other caller) and  order_items    *)
(*    the list of OrderItem it is building.                                *)
(*  - A raised exception is a value: every modelled function returns       *)
(*    [raised |-> "none" or the exception's name, ret |-> its result].     *)
(***************************************************************************)
EXTENDS Integers, Sequences, FiniteSets, TLC

VARIABLES exists, store, today, call, saved, initial, frontend, order_items

vars == <<exists, store, today, call, saved, initial, frontend, order_items>>

(***************************************************************************)
(* Bounds of the model.                                                    *)
(***************************************************************************)
MaxSaves == 2
MaxDay == 2
MaxHistory == 2
MaxTextLen == 5
MaxNameLen == 3
MaxCodecOrderLen == 2
MaxOrderLen == 2
MaxQty == 2

(***************************************************************************)
(* Python str primitives.                                                  *)
(***************************************************************************)
Whitespace == {" ", "\t"}

Digits == <<"0", "1", "2", "3", "4", "5", "6", "7", "8", "9">>

IsDigit(c) == \E i \in 1..10 : Digits[i] = c

DigitVal(c) == (CHOOSE i \in 1..10 : Digits[i] = c) - 1

RECURSIVE LStrip(_)
LStrip(s) ==
  IF s = <<>> THEN <<>>
  ELSE IF Head(s) \in Whitespace THEN LStrip(Tail(s)) ELSE s

RECURSIVE RStrip(_)
RStrip(s) ==
  IF s = <<>> THEN <<>>
  ELSE IF s[Len(s)] \in Whitespace THEN RStrip(SubSeq(s, 1, Len(s) - 1)) ELSE s

\* str.strip()
Strip(s) == RStrip(LStrip(s))

\* a comparison of the year and month only
StartsWithSameMonth(s, prefix) ==
  /\ Len(prefix) <= Len(s)
  /\ SubSeq(s, 1, 8) = SubSeq(prefix, 1, 8)

\* str.startswith(prefix)
StartsWith(s, prefix) ==
  /\ Len(prefix) <= Len(s)
  /\ SubSeq(s, 1, Len(prefix)) = prefix

\* the positions at which sub occurs in s
Occurrences(s, sub) ==
  {i \in 1..(Len(s) - Len(sub) + 1) : SubSeq(s, i, i + Len(sub) - 1) = sub}

\* sub in s
Contains(s, sub) == Occurrences(s, sub) # {}

\* str.split(sep) for a one-character separator: always at least one piece
RECURSIVE SplitChar(_, _)
SplitChar(s, sep) ==
  IF \A i \in 1..Len(s) : s[i] # sep THEN <<s>>
  ELSE LET i == CHOOSE k \in 1..Len(s) :
                  /\ s[k] = sep
                  /\ \A j \in 1..(k - 1) : s[j] # sep
       IN <<SubSeq(s, 1, i - 1)>> \o SplitChar(SubSeq(s, i + 1, Len(s)), sep)

\* a split at the FIRST sep, as str.split(sep, 1) does
SplitOnceAtFirst(s, sep) ==
  LET i == CHOOSE k \in Occurrences(s, sep) : \A j \in Occurrences(s, sep) : k <= j
  IN <<SubSeq(s, 1, i - 1), SubSeq(s, i + Len(sep), Len(s))>>

\* str.rsplit(sep, 1) when sep occurs in s: the text before and after the LAST sep
RSplitOnce(s, sep) ==
  LET i == CHOOSE k \in Occurrences(s, sep) : \A j \in Occurrences(s, sep) : j <= k
  IN <<SubSeq(s, 1, i - 1), SubSeq(s, i + Len(sep), Len(s))>>

\* a join that emits the parts last to first
RECURSIVE JoinBackwards(_, _)
JoinBackwards(sep, parts) ==
  IF parts = <<>> THEN <<>>
  ELSE IF Len(parts) = 1 THEN parts[1]
  ELSE JoinBackwards(sep, Tail(parts)) \o sep \o parts[1]

\* str.join(parts) with separator sep
RECURSIVE Join(_, _)
Join(sep, parts) ==
  IF parts = <<>> THEN <<>>
  ELSE IF Len(parts) = 1 THEN parts[1]
  ELSE parts[1] \o sep \o Join(sep, Tail(parts))

\* the decimal digits of a natural number
RECURSIVE NatToStr(_)
NatToStr(n) ==
  IF n < 10 THEN <<Digits[n + 1]>>
  ELSE NatToStr(n \div 10) \o <<Digits[(n % 10) + 1]>>

\* f"{n}" of an int
IntToStr(n) == IF n < 0 THEN <<"-">> \o NatToStr(-n) ELSE NatToStr(n)

RECURSIVE DigitsToNat(_)
DigitsToNat(s) ==
  IF s = <<>> THEN 0
  ELSE 10 * DigitsToNat(SubSeq(s, 1, Len(s) - 1)) + DigitVal(s[Len(s)])

AllDigits(s) == s # <<>> /\ \A i \in 1..Len(s) : IsDigit(s[i])

\* int(s): surrounding whitespace is ignored, one optional sign, then digits;
\* anything else raises ValueError
ParseInt(s) ==
  LET t == Strip(s)
      signed == t # <<>> /\ Head(t) \in {"+", "-"}
      body == IF signed THEN Tail(t) ELSE t
  IN IF AllDigits(body)
     THEN [raised |-> "none",
           ret |-> IF signed /\ Head(t) = "-" THEN -DigitsToNat(body)
                   ELSE DigitsToNat(body)]
     ELSE [raised |-> "ValueError", ret |-> 0]

(***************************************************************************)
(* Order items and the totals engine.  An OrderItem is                     *)
(* [name, quantity, unit_price], unit_price in mills.                      *)
(***************************************************************************)
GST_RATE_PERCENT == 5

\* a check that lets zero through
validate_quantity_allowing_zero(quantity) ==
  IF quantity < 0 THEN [raised |-> "ValueError", ret |-> quantity]
  ELSE [raised |-> "none", ret |-> quantity]

\* validate_quantity (the same in pos_logic.py, billing_core.py, coffeebot.py)
validate_quantity(quantity) ==
  IF quantity <= 0 THEN [raised |-> "ValueError", ret |-> quantity]
  ELSE [raised |-> "none", ret |-> quantity]

\* OrderItem.line_total
line_total(item) == item.unit_price * item.quantity

RECURSIVE SumLineTotals(_)
SumLineTotals(items) ==
  IF items = <<>> THEN 0 ELSE line_total(Head(items)) + SumLineTotals(Tail(items))

\* n/d rounded to the nearest integer, ties to the even one (d > 0)
RoundHalfEvenDiv(n, d) ==
  LET q == n \div d
      r == n % d
  IN IF 2 * r > d \/ (2 * r = d /\ q % 2 = 1) THEN q + 1 ELSE q

\* round(x, 2) of the amount x = n/d mills; the result is in mills
Round2(n, d) == 10 * RoundHalfEvenDiv(n, 10 * d)

\* calculate_totals of pos_logic.py and coffeebot.py: the subtotal is rounded
\* before the tax is taken
calculate_totals_pos_logic(items) ==
  LET subtotal == Round2(SumLineTotals(items), 1)
      gst_amount == Round2(subtotal * GST_RATE_PERCENT, 100)
      final_total == Round2(subtotal + gst_amount, 1)
  IN <<subtotal, gst_amount, final_total>>

\* calculate_totals of billing_core.py: tax and total are taken from the
\* unrounded sum, the subtotal is rounded only when returned
calculate_totals_billing_core(items) ==
  LET subtotal == SumLineTotals(items)
      gst_amount == Round2(subtotal * GST_RATE_PERCENT, 100)
      final_total == Round2(subtotal + gst_amount, 1)
  IN <<Round2(subtotal, 1), gst_amount, final_total>>

Copies == {"pos_logic", "billing_core", "coffeebot"}

\* totals that carry a fixed charge of 1.00 on every bill, the empty one too
calculate_totals_with_charge(copy, items) ==
  <<calculate_totals_pos_logic(items)[1] + 1000,
    calculate_totals_pos_logic(items)[2],
    calculate_totals_pos_logic(items)[3] + 1000>>

calculate_totals(copy, items) ==
  IF copy = "billing_core" THEN calculate_totals_billing_core(items)
  ELSE calculate_totals_pos_logic(items)

(***************************************************************************)
(* Binary floating point.  The amounts of the code are Python floats (IEEE *)
(* 754 doubles, 53 significant bits, round to nearest, ties to even).  The *)
(* definitions above compute in exact decimals, which is what the floats   *)
(* give for whole-rupee prices; the definitions below compute what the     *)
(* floats give for any price in whole cents.                               *)
(* A natural number is a sequence of limbs, least significant first, each  *)
(* in 0..LimbBase-1, without a zero limb at the top (zero is << >>); a     *)
(* non-negative double x is the natural number x * 2^FractionBits, which   *)
(* is exact for the amounts that occur (0.0005 <= x < 2^15, or x = 0).     *)
(***************************************************************************)
LimbBits == 15

LimbBase == 2^LimbBits

\* five limbs
FractionLimbs == 5

FractionBits == FractionLimbs * LimbBits

SignificantBits == 53

RECURSIVE BigNorm(_)
BigNorm(x) ==
  IF x = <<>> THEN <<>>
  ELSE IF x[Len(x)] = 0 THEN BigNorm(SubSeq(x, 1, Len(x) - 1))
  ELSE x

\* the limbs of a number below LimbBase^2
BigOfInt(n) == BigNorm(<<n % LimbBase, n \div LimbBase>>)

Zeros(n) == [j \in 1..n |-> 0]

RECURSIVE BigAddCarry(_, _, _)
BigAddCarry(x, y, carry) ==
  IF x = <<>> /\ y = <<>> THEN (IF carry = 0 THEN <<>> ELSE <<carry>>)
  ELSE IF x = <<>> THEN BigAddCarry(<<0>>, y, carry)
  ELSE IF y = <<>> THEN BigAddCarry(x, <<0>>, carry)
  ELSE <<(Head(x) + Head(y) + carry) % LimbBase>>
       \o BigAddCarry(Tail(x), Tail(y), (Head(x) + Head(y) + carry) \div LimbBase)

BigAdd(x, y) == BigNorm(BigAddCarry(x, y, 0))

\* x * s + carry, for s and carry below LimbBase
RECURSIVE BigMulSmallCarry(_, _, _)
BigMulSmallCarry(x, s, carry) ==
  IF x = <<>> THEN (IF carry = 0 THEN <<>> ELSE <<carry>>)
  ELSE <<(Head(x) * s + carry) % LimbBase>>
       \o BigMulSmallCarry(Tail(x), s, (Head(x) * s + carry) \div LimbBase)

BigMulSmall(x, s) == BigNorm(BigMulSmallCarry(x, s, 0))

RECURSIVE BigMul(_, _)
BigMul(x, y) ==
  IF y = <<>> THEN <<>>
  ELSE BigAdd(BigMulSmall(x, Head(y)), BigNorm(<<0>> \o BigMul(x, Tail(y))))

\* x \div s and x % s for 0 < s < LimbBase, limbs taken from the top; rem is
\* the remainder of the limbs above
RECURSIVE BigDivSmallFrom(_, _, _)
BigDivSmallPut(lower, q) == [quot |-> Append(lower.quot, q), rem |-> lower.rem]

BigDivSmallStep(rest, s, q, r) == BigDivSmallPut(BigDivSmallFrom(rest, s, r), q)

BigDivSmallFrom(x, s, rem) ==
  IF x = <<>> THEN [quot |-> <<>>, rem |-> rem]
  ELSE BigDivSmallStep(SubSeq(x, 1, Len(x) - 1), s,
                       (rem * LimbBase + x[Len(x)]) \div s,
                       (rem * LimbBase + x[Len(x)]) % s)

RECURSIVE LimbBitLength(_)
LimbBitLength(v) == IF v = 0 THEN 0 ELSE 1 + LimbBitLength(v \div 2)

BitLength(x) ==
  IF x = <<>> THEN 0 ELSE (Len(x) - 1) * LimbBits + LimbBitLength(x[Len(x)])

\* bit i of x (bit 0 is the lowest)
BitAt(x, i) ==
  IF (i \div LimbBits) + 1 > Len(x) THEN 0
  ELSE (x[(i \div LimbBits) + 1] \div (2^(i % LimbBits))) % 2

\* some bit of x below bit i is set
AnyBitBelow(x, i) ==
  \/ \E j \in 1..(i \div LimbBits) : j <= Len(x) /\ x[j] # 0
  \/ /\ (i \div LimbBits) + 1 <= Len(x)
     /\ x[(i \div LimbBits) + 1] % (2^(i % LimbBits)) # 0

\* x with the bits below bit d cleared
ClearBelow(x, d) ==
  [j \in 1..Len(x) |->
     IF j <= d \div LimbBits THEN 0
     ELSE IF j = (d \div LimbBits) + 1 THEN x[j] - (x[j] % (2^(d % LimbBits)))
     ELSE x[j]]

Pow2(d) == Zeros(d \div LimbBits) \o <<2^(d % LimbBits)>>

\* round to nearest, ties to even, at bit d: more than half of the dropped
\* bits, or exactly half and bit d odd, rounds up
RoundsUpAt(x, d) ==
  /\ BitAt(x, d - 1) = 1
  /\ AnyBitBelow(x, d - 1) \/ BitAt(x, d) = 1

RoundAt(x, d) ==
  IF RoundsUpAt(x, d) THEN BigAdd(ClearBelow(x, d), Pow2(d))
  ELSE BigNorm(ClearBelow(x, d))

\* x rounded to SignificantBits significant bits
RoundToDouble(x) ==
  IF BitLength(x) <= SignificantBits THEN x
  ELSE RoundAt(x, BitLength(x) - SignificantBits)

\* x \div 2^FractionBits of a number whose low FractionBits bits are zero
DropFraction(x) ==
  IF Len(x) <= FractionLimbs THEN <<>> ELSE SubSeq(x, FractionLimbs + 1, Len(x))

\* float(n) of an int
float_of_int(n) == IF n = 0 THEN <<>> ELSE Zeros(FractionLimbs) \o BigOfInt(n)

\* a * b of two floats
float_mul(a, b) == DropFraction(RoundToDouble(BigMul(a, b)))

\* a + b of two floats
float_add(a, b) == RoundToDouble(BigAdd(a, b))

\* the quotient of a division that left a remainder, made odd: what was cut
\* off counts as more than nothing when the quotient is rounded
WithSticky(d) ==
  IF d.rem = 0 \/ d.quot = <<>> THEN BigNorm(d.quot)
  ELSE BigNorm([d.quot EXCEPT ![1] = d.quot[1] - (d.quot[1] % 2) + 1])

\* the double nearest to n/100 (n a natural number in limbs): the value of
\* the literal or of the decimal string with two places
float_of_hundredths(n) ==
  IF n = <<>> THEN <<>>
  ELSE DropFraction(RoundToDouble(WithSticky(
         BigDivSmallFrom(Zeros(2 * FractionLimbs) \o n, 100, 0))))

\* the integer nearest to 100 * a, ties to even, from m = 100 * a * 2^FractionBits
NearestInteger(m) ==
  IF RoundsUpAt(m, FractionBits) THEN BigAdd(DropFraction(m), <<1>>)
  ELSE DropFraction(m)

\* round(a, 2) of a float: the exact value is rounded to two decimal places
\* and the result is the double nearest to that decimal
float_round2(a) == float_of_hundredths(NearestInteger(BigMulSmall(a, 100)))

\* GST_RATE = 0.05
GST_RATE_FLOAT == float_of_hundredths(BigOfInt(5))

\* OrderItem.line_total: self.unit_price * self.quantity
line_total_float(item) == float_mul(item.unit_price, float_of_int(item.quantity))

\* sum(item.line_total for item in order_items): the int 0, then each float
\* added in turn
RECURSIVE SumLineTotalsFloat(_, _)
SumLineTotalsFloat(items, acc) ==
  IF items = <<>> THEN acc
  ELSE SumLineTotalsFloat(Tail(items), float_add(acc, line_total_float(Head(items))))

TotalsPosLogicFloat(subtotal, gst_amount) ==
  <<subtotal, gst_amount, float_round2(float_add(subtotal, gst_amount))>>

TaxedPosLogicFloat(subtotal) ==
  TotalsPosLogicFloat(subtotal, float_round2(float_mul(subtotal, GST_RATE_FLOAT)))

\* calculate_totals of pos_logic.py and coffeebot.py, in floats
calculate_totals_pos_logic_float(items) ==
  TaxedPosLogicFloat(float_round2(SumLineTotalsFloat(items, <<>>)))

TotalsBillingCoreFloat(subtotal, gst_amount) ==
  <<float_round2(subtotal), gst_amount,
    float_round2(float_add(subtotal, gst_amount))>>

\* calculate_totals of billing_core.py, in floats
calculate_totals_billing_core_float(items) ==
  TotalsBillingCoreFloat(SumLineTotalsFloat(items, <<>>),
                         float_round2(float_mul(SumLineTotalsFloat(items, <<>>),
                                                GST_RATE_FLOAT)))

calculate_totals_float(copy, items) ==
  IF copy = "billing_core" THEN calculate_totals_billing_core_float(items)
  ELSE calculate_totals_pos_logic_float(items)

(***************************************************************************)
(* The item-list codec.                                                    *)
(***************************************************************************)
\* format_order_items: "<name> x<quantity>" per item, joined with "; "
format_order_items(items) ==
  Join(<<";", " ">>,
       [i \in 1..Len(items) |->
          items[i].name \o <<" ", "x">> \o IntToStr(items[i].quantity)])

\* A Counter is a dict: a sequence of [name, count] entries in insertion order.
CounterNames(counter) == {counter[i].name : i \in 1..Len(counter)}

CounterGet(counter, name) ==
  IF name \in CounterNames(counter)
  THEN counter[CHOOSE i \in 1..Len(counter) : counter[i].name = name].count
  ELSE 0

\* an addition that moves an existing key to the last place
CounterAddMovingLast(counter, name, qty) ==
  Append(SelectSeq(counter, LAMBDA e : e.name # name),
         [name |-> name, count |-> CounterGet(counter, name) + qty])

\* counter[name] += qty: an existing key keeps its place, a new one goes last
CounterAdd(counter, name, qty) ==
  IF name \in CounterNames(counter)
  THEN [i \in 1..Len(counter) |->
          IF counter[i].name = name
          THEN [name |-> name, count |-> counter[i].count + qty]
          ELSE counter[i]]
  ELSE Append(counter, [name |-> name, count |-> qty])

\* Counter.update(other): adds other's counts, in other's insertion order
RECURSIVE CounterUpdate(_, _)
CounterUpdate(counter, other) ==
  IF other = <<>> THEN counter
  ELSE CounterUpdate(CounterAdd(counter, Head(other).name, Head(other).count),
                     Tail(other))

\* the quantity parse without its except clause
SegmentQuantityUncaught(qty_str) == ParseInt(Strip(qty_str))

\* try: qty = int(qty_str.strip())  except ValueError: qty = 1
SegmentQuantity(qty_str) ==
  LET r == ParseInt(Strip(qty_str))
  IN IF r.raised = "ValueError" THEN [raised |-> "none", ret |-> 1] ELSE r

\* the body of the loop of _parse_ordered_items for one piece of the split
ParseSegment(counter, rawPart) ==
  LET part == Strip(rawPart)
  IN IF part = <<>> THEN [raised |-> "none", ret |-> counter]
     ELSE IF Contains(part, <<" ", "x">>)
     THEN LET sp == RSplitOnce(part, <<" ", "x">>)
              name == Strip(sp[1])
              q == SegmentQuantity(sp[2])
          IN IF q.raised # "none" THEN [raised |-> q.raised, ret |-> counter]
             ELSE IF name # <<>>
             THEN [raised |-> "none", ret |-> CounterAdd(counter, name, q.ret)]
             ELSE [raised |-> "none", ret |-> counter]
     ELSE [raised |-> "none", ret |-> CounterAdd(counter, part, 1)]

RECURSIVE ParseParts(_, _)
ParseParts(counter, parts) ==
  IF parts = <<>> THEN [raised |-> "none", ret |-> counter]
  ELSE LET r == ParseSegment(counter, Head(parts))
       IN IF r.raised # "none" THEN r ELSE ParseParts(r.ret, Tail(parts))

\* _parse_ordered_items of admin.py and coffeebot.py ("if not s" is true of
\* the empty str and of None)
_parse_ordered_items(ordered_items_str) ==
  IF ordered_items_str = <<>> \/ ordered_items_str = <<"None">> THEN [raised |-> "none", ret |-> <<>>]
  ELSE ParseParts(<<>>, SplitChar(ordered_items_str, ";"))

(***************************************************************************)
(* Number formats of the record fields.                                    *)
(***************************************************************************)
\* f"{x:.2f}" of the amount x mills
Format2f(x) ==
  LET c == RoundHalfEvenDiv(x, 10)
      a == IF c < 0 THEN -c ELSE c
      frac == a % 100
  IN (IF c < 0 THEN <<"-">> ELSE <<>>)
     \o NatToStr(a \div 100) \o <<".">>
     \o <<Digits[(frac \div 10) + 1], Digits[(frac % 10) + 1]>>

\* the first three fraction digits of a digit string, as mills
FractionMills(f) ==
  LET g == SubSeq(f \o <<"0", "0", "0">>, 1, 3) IN DigitsToNat(g)

\* float(s) of a str: surrounding whitespace is ignored, one optional sign, then
\* digits with at most one "."; anything else raises ValueError.  The result
\* is in mills (fraction digits after the third are dropped; the exponent,
\* "inf" and "nan" forms of float() are not in the model's alphabet).
ParseFloat(s) ==
  LET t == Strip(s)
      signed == t # <<>> /\ Head(t) \in {"+", "-"}
      body == IF signed THEN Tail(t) ELSE t
      dots == Occurrences(body, <<".">>)
      dot == IF dots = {} THEN Len(body) + 1 ELSE CHOOSE i \in dots : TRUE
      ip == SubSeq(body, 1, dot - 1)
      fp == SubSeq(body, dot + 1, Len(body))
      wellFormed ==
        /\ Cardinality(dots) <= 1
        /\ \A i \in 1..Len(ip) : IsDigit(ip[i])
        /\ \A i \in 1..Len(fp) : IsDigit(fp[i])
        /\ ip # <<>> \/ fp # <<>>
      magnitude == 1000 * DigitsToNat(ip) + FractionMills(fp)
  IN IF wellFormed
     THEN [raised |-> "none",
           ret |-> IF signed /\ Head(t) = "-" THEN -magnitude ELSE magnitude]
     ELSE [raised |-> "ValueError", ret |-> 0]

(***************************************************************************)
(* The sales file.                                                         *)
(***************************************************************************)
K_CustomerName == <<"C", "u", "s", "t", "o", "m", "e", "r", "N", "a", "m", "e">>
K_OrderedItems == <<"O", "r", "d", "e", "r", "e", "d", "I", "t", "e", "m", "s">>
K_Subtotal == <<"S", "u", "b", "t", "o", "t", "a", "l">>
K_GST == <<"G", "S", "T">>
K_FinalTotal == <<"F", "i", "n", "a", "l", "T", "o", "t", "a", "l">>
K_PaymentMethod == <<"P", "a", "y", "m", "e", "n", "t", "M", "e", "t", "h", "o", "d">>
K_DateTime == <<"D", "a", "t", "e", "T", "i", "m", "e">>

\* the fixed 7-column header row
HeaderRow ==
  <<K_CustomerName, K_OrderedItems, K_Subtotal, K_GST, K_FinalTotal,
    K_PaymentMethod, K_DateTime>>

\* strftime("%Y-%m-%d") of the clock: the model's clock runs over the days of
\* one month
DateStr(day) ==
  <<"2", "0", "2", "6", "-", "1", "1", "-">> \o <<Digits[(day \div 10) + 1], Digits[(day % 10) + 1]>>

\* a stamp written day first, as strftime("%d-%m-%Y %H:%M:%S") would
TimestampDayFirst(day) ==
  <<Digits[(day \div 10) + 1], Digits[(day % 10) + 1]>>
  \o <<"-", "1", "1", "-", "2", "0", "2", "6", " ", "0", "9", ":", "3", "0", ":", "0", "0">>

\* datetime.now().strftime("%Y-%m-%d %H:%M:%S"); the time of day is fixed
Timestamp(day) == DateStr(day) \o <<" ", "0", "9", ":", "3", "0", ":", "0", "0">>

\* csv_path.exists() and csv_path.stat().st_size > 0
HasContent(e, st) == e /\ st # <<>>

\* a header step that skips the check and always opens the file with mode "w"
ensure_header_always_truncating(file) == [exists |-> TRUE, store |-> <<HeaderRow>>]

\* a header step that checks only that the path exists, not its size
ensure_header_when_missing(file) ==
  IF file.exists THEN file ELSE [exists |-> TRUE, store |-> <<HeaderRow>>]

\* _ensure_sales_file_has_header: open(mode="w") truncates, then the header
\* row is written; nothing is done to a file that has content
_ensure_sales_file_has_header(file) ==
  IF HasContent(file.exists, file.store) THEN file
  ELSE [exists |-> TRUE, store |-> <<HeaderRow>>]

\* a row written through open(mode="w"): what the file held is gone
AppendRowTruncating(file, row) == [exists |-> TRUE, store |-> <<row>>]

\* open(mode="a") and writer.writerow(row)
AppendRow(file, row) == [exists |-> TRUE, store |-> Append(file.store, row)]

\* a row that stores the name and the payment method as they were passed
TransactionRowUnstripped(customer_name, items, payment_method, totals, day) ==
  <<customer_name, format_order_items(items), Format2f(totals[1]),
    Format2f(totals[2]), Format2f(totals[3]), payment_method, Timestamp(day)>>

\* the row save_transaction writes
TransactionRow(customer_name, items, payment_method, totals, day) ==
  <<Strip(customer_name), format_order_items(items), Format2f(totals[1]),
    Format2f(totals[2]), Format2f(totals[3]), Strip(payment_method),
    Timestamp(day)>>

\* a name check without the strip()
NameIsEmptyUnstripped(customer_name) == customer_name = <<>>

\* if not customer_name.strip(): raise ValueError
NameIsEmpty(customer_name) == Strip(customer_name) = <<>>

\* a save that ensures the header before it checks its arguments
save_transaction_header_first(copy, customer_name, items, payment_method, file, day) ==
  IF NameIsEmpty(customer_name) \/ items = <<>>
  THEN [raised |-> "ValueError", ret |-> <<>>,
        file |-> _ensure_sales_file_has_header(file)]
  ELSE [raised |-> "none", ret |-> calculate_totals(copy, items),
        file |-> AppendRow(_ensure_sales_file_has_header(file),
                           TransactionRow(customer_name, items, payment_method,
                                          calculate_totals(copy, items), day))]

\* save_transaction of the copy `copy`, on the file `file` at clock `day`:
\* the outcome and the file afterwards
save_transaction(copy, customer_name, items, payment_method, file, day) ==
  IF NameIsEmpty(customer_name)
  THEN [raised |-> "ValueError", ret |-> <<>>, file |-> file]
  ELSE IF items = <<>>
  THEN [raised |-> "ValueError", ret |-> <<>>, file |-> file]
  ELSE LET totals == calculate_totals(copy, items)
           row == TransactionRow(customer_name, items, payment_method, totals, day)
       IN [raised |-> "none", ret |-> totals,
           file |-> AppendRow(_ensure_sales_file_has_header(file), row)]

(***************************************************************************)
(* The daily aggregator.                                                   *)
(***************************************************************************)
\* None, where a str is expected: no str is made of a longer-than-one-character
\* element
NoneValue == <<"None">>

NotAvailable == <<"N", "/", "A">>

\* csv.DictReader: the dict of one data row under the field names of the
\* first row.  A field the row is too short for is None (restval); when a
\* field name repeats, the last one wins.
\* d.get(key, default) of that dict:
RowGet(d, key, default) ==
  LET at == {i \in 1..Len(d.fieldnames) : d.fieldnames[i] = key}
  IN IF at = {} THEN default
     ELSE LET i == CHOOSE k \in at : \A j \in at : j <= k
          IN IF i <= Len(d.fields) THEN d.fields[i] ELSE NoneValue

\* the dicts DictReader yields: one per row after the first, blank rows skipped
RECURSIVE DictRows(_, _)
DictRows(fieldnames, rows) ==
  IF rows = <<>> THEN <<>>
  ELSE IF Head(rows) = <<>> THEN DictRows(fieldnames, Tail(rows))
  ELSE <<[fieldnames |-> fieldnames, fields |-> Head(rows)]>>
       \o DictRows(fieldnames, Tail(rows))

\* the loop of _load_todays_transactions: timestamp.startswith(today_str) on a
\* timestamp that is None raises AttributeError
RECURSIVE FilterToday(_, _, _)
FilterToday(dicts, today_str, kept) ==
  IF dicts = <<>> THEN [raised |-> "none", ret |-> kept]
  ELSE LET timestamp == RowGet(Head(dicts), K_DateTime, <<>>)
       IN IF timestamp = NoneValue
          THEN [raised |-> "AttributeError", ret |-> <<>>]
          ELSE FilterToday(Tail(dicts), today_str,
                           IF StartsWith(timestamp, today_str)
                           THEN Append(kept, Head(dicts)) ELSE kept)

\* a loader that makes sure of the header before it reads
FileAfterReadEnsuringHeader(file) ==
  IF HasContent(file.exists, file.store) THEN file
  ELSE [exists |-> TRUE, store |-> <<HeaderRow>>]

\* the file as _load_todays_transactions leaves it: an absent or zero-length
\* file is not opened, any other is opened with mode "r" and only iterated
FileAfterRead(file) == file

\* _load_todays_transactions of admin.py and coffeebot.py
_load_todays_transactions(file, day) ==
  IF ~HasContent(file.exists, file.store) THEN [raised |-> "none", ret |-> <<>>]
  ELSE FilterToday(DictRows(Head(file.store), Tail(file.store)), DateStr(day), <<>>)

\* acc += float(row.get(key, "0") or 0): "" and None are replaced by 0
AddFloat(acc, f) ==
  IF f.raised # "none" THEN [raised |-> f.raised, ret |-> acc]
  ELSE [raised |-> "none", ret |-> acc + f.ret]

AddFloatField(acc, row, key) ==
  LET v == RowGet(row, key, <<"0">>)
  IN IF v = NoneValue \/ v = <<>> THEN [raised |-> "none", ret |-> acc]
     ELSE AddFloat(acc, ParseFloat(v))

\* the addition without the except clause
AddFieldUncaught(acc, row, key) == AddFloatField(acc, row, key)

\* except ValueError: pass
ExceptValueError(r, acc) ==
  IF r.raised = "ValueError" THEN [raised |-> "none", ret |-> acc] ELSE r

\* try: acc += float(...)  except ValueError: pass
AddField(acc, row, key) == ExceptValueError(AddFloatField(acc, row, key), acc)

\* a choice of the first inserted entry, whatever its count
MostCommonFirstInserted(counter) == counter[1].name

\* a choice of the last entry, in insertion order, of the highest count
MostCommonLastOfHighest(counter) ==
  LET i == CHOOSE k \in 1..Len(counter) :
             /\ \A j \in 1..Len(counter) : counter[j].count <= counter[k].count
             /\ \A j \in (k + 1)..Len(counter) : counter[j].count < counter[k].count
  IN counter[i].name

\* item_counter.most_common(1)[0][0]: the first entry, in insertion order, of
\* the highest count
MostCommon(counter) ==
  LET i == CHOOSE k \in 1..Len(counter) :
             /\ \A j \in 1..Len(counter) : counter[j].count <= counter[k].count
             /\ \A j \in 1..(k - 1) : counter[j].count < counter[k].count
  IN counter[i].name

\* the body of the loop of compute_daily_summary for one kept row
\* the three statements in order: the first that raises ends the body
FoldRowSteps(acc, sales, gst, parsed) ==
  IF sales.raised # "none" THEN [raised |-> sales.raised, ret |-> acc]
  ELSE IF gst.raised # "none" THEN [raised |-> gst.raised, ret |-> acc]
  ELSE IF parsed.raised # "none" THEN [raised |-> parsed.raised, ret |-> acc]
  ELSE [raised |-> "none",
        ret |-> [total_sales |-> sales.ret, total_gst |-> gst.ret,
                 item_counter |-> CounterUpdate(acc.item_counter, parsed.ret)]]

FoldRow(acc, row) ==
  FoldRowSteps(acc,
               AddField(acc.total_sales, row, K_FinalTotal),
               AddField(acc.total_gst, row, K_GST),
               _parse_ordered_items(RowGet(row, K_OrderedItems, <<>>)))

\* the loop of compute_daily_summary over the kept rows
RECURSIVE FoldRows(_, _)
FoldRest(rest, r) == IF r.raised # "none" THEN r ELSE FoldRows(rest, r.ret)

FoldRows(rows, acc) ==
  IF rows = <<>> THEN [raised |-> "none", ret |-> acc]
  ELSE FoldRest(Tail(rows), FoldRow(acc, Head(rows)))

ZeroSummary ==
  [total_sales |-> 0, total_gst |-> 0, transaction_count |-> 0,
   top_item |-> NotAvailable]

\* a summary whose count is the number of distinct items tallied
SummaryCountingItems(rows, f) ==
  IF f.raised # "none" THEN [raised |-> f.raised, ret |-> ZeroSummary]
  ELSE [raised |-> "none",
        ret |-> [total_sales |-> Round2(f.ret.total_sales, 1),
                 total_gst |-> Round2(f.ret.total_gst, 1),
                 transaction_count |-> Len(f.ret.item_counter),
                 top_item |-> IF f.ret.item_counter # <<>>
                              THEN MostCommon(f.ret.item_counter)
                              ELSE NotAvailable]]

\* the rounding and the most common item after the loop
Summary(rows, f) ==
  IF f.raised # "none" THEN [raised |-> f.raised, ret |-> ZeroSummary]
  ELSE [raised |-> "none",
        ret |-> [total_sales |-> Round2(f.ret.total_sales, 1),
                 total_gst |-> Round2(f.ret.total_gst, 1),
                 transaction_count |-> Len(rows),
                 top_item |-> IF f.ret.item_counter # <<>>
                              THEN MostCommon(f.ret.item_counter)
                              ELSE NotAvailable]]

\* compute_daily_summary of admin.py and coffeebot.py; amounts in mills
compute_daily_summary(rows) ==
  IF rows = <<>> THEN [raised |-> "none", ret |-> ZeroSummary]
  ELSE Summary(rows, FoldRows(rows, [total_sales |-> 0, total_gst |-> 0,
                                     item_counter |-> <<>>]))

\* show_daily_report: load, then compute (the printing is not modelled)
show_daily_report(file, day) ==
  LET rows == _load_todays_transactions(file, day)
  IN IF rows.raised # "none" THEN [raised |-> rows.raised, ret |-> ZeroSummary]
     ELSE compute_daily_summary(rows.ret)

(***************************************************************************)
(* Inputs of the state machines.                                           *)
(***************************************************************************)
SeqsUpTo(S, n) == UNION {[1..k -> S] : k \in 0..n}

Latte == <<"L", "a", "t", "t", "e">>
VadaPav == <<"V", "a", "d", "a", " ", "p", "a", "v">>
Samosa == <<"S", "a", "m", "o", "s", "a">>

OrderItem(name, quantity, unit_price) ==
  [name |-> name, quantity |-> quantity, unit_price |-> unit_price]

\* customer names a caller passes: empty, whitespace only, padded
CustomerNames == {<<>>, <<" ", "\t">>, <<" ", "A", "l", " ">>}

PaymentMethods == {<<"C", "a", "s", "h">>, <<" ", "U", "P", "I", " ">>}

\* orders a caller passes, priced from the menu (Latte 120.0, Vada pav 30.0)
SaveOrders ==
  {<<>>,
   <<OrderItem(Latte, 2, 120000), OrderItem(VadaPav, 1, 30000)>>,
   <<OrderItem(VadaPav, 1, 30000), OrderItem(VadaPav, 2, 30000)>>}

\* rows an older run, another program or an editor left in the file
HistoricRows ==
  {<<<<"B", "o", "b">>, <<"S", "a", "m", "o", "s", "a", " ", "x", "3">>, <<"7", "5", ".", "0", "0">>, <<"3", ".", "7", "5">>, <<"7", "8", ".", "7", "5">>, <<"C", "a", "s", "h">>, <<"2", "0", "2", "6", "-", "1", "1", "-", "0", "1", " ", "0", "8", ":", "0", "0", ":", "0", "0">>>>,
   <<<<"E", "v", "e">>, <<"L", "a", "t", "t", "e", " ", "x", "9">>, <<"1", "0", "8", "0", ".", "0", "0">>, <<"5", "4", ".", "0", "0">>, <<"1", "1", "3", "4", ".", "0", "0">>, <<"C", "a", "r", "d">>, <<"2", "0", "2", "6", "-", "1", "0", "-", "3", "1", " ", "1", "0", ":", "0", "0", ":", "0", "0">>>>,
   <<<<"K", "i", "m">>, <<"V", "a", "d", "a", " ", "p", "a", "v", " ", "x", "4">>, <<"1", "2", "0", ".", "0", "0">>, <<"6", ".", "0", "0">>, <<"1", "2", "6", ".", "0", "0">>, <<"U", "P", "I">>, <<"2", "0", "2", "6", "-", "1", "1", "-", "0", "2", " ", "0", "7", ":", "0", "0", ":", "0", "0">>>>,
   <<<<"D", "a", "n">>, <<"L", "a", "t", "t", "e", " ", "x", "1">>, <<"9", "5", ".", "2", "4">>, <<"a", "b", "c">>, <<"1", "0", "0", ".", "0", "0">>, <<"U", "P", "I">>, <<"2", "0", "2", "6", "-", "1", "1", "-", "0", "1", " ", "0", "8", ":", "1", "0", ":", "0", "0">>>>,
   <<<<"F", "a", "y">>, <<"S", "a", "m", "o", "s", "a">>, <<"2", "5", ".", "0", "0">>, <<"1", ".", "2", "5">>, <<"1", "2", "x">>, <<"C", "a", "s", "h">>, <<"2", "0", "2", "6", "-", "1", "1", "-", "0", "1", " ", "0", "8", ":", "2", "0", ":", "0", "0">>>>,
   <<<<"H", "a", "l">>, <<"L", "a", "t", "t", "e", " ", "x", "2">>, <<"2", "4", "0", ".", "0", "0">>, <<"1", "2", ".", "0", "0">>, <<"2", "5", "2", ".", "0", "0">>, <<"C", "a", "s", "h">>, <<"0", "1", "/", "1", "1", "/", "2", "0", "2", "6">>>>,
   <<<<"G", "u", "s">>, <<"L", "a", "t", "t", "e", " ", "x", "1">>>>,
   <<>>}

\* three records of the first day, final totals 283.50, 100.00 and 50.00, the
\* second with the GST field "abc"
ExampleStore ==
  <<HeaderRow,
    <<<<"A", "n", "n">>, <<"L", "a", "t", "t", "e", " ", "x", "2", ";", " ", "V", "a", "d", "a", " ", "p", "a", "v", " ", "x", "1">>, <<"2", "7", "0", ".", "0", "0">>, <<"1", "3", ".", "5", "0">>, <<"2", "8", "3", ".", "5", "0">>, <<"C", "a", "s", "h">>, <<"2", "0", "2", "6", "-", "1", "1", "-", "0", "1", " ", "0", "8", ":", "0", "0", ":", "0", "0">>>>,
    <<<<"D", "a", "n">>, <<"L", "a", "t", "t", "e", " ", "x", "1">>, <<"9", "5", ".", "2", "4">>, <<"a", "b", "c">>, <<"1", "0", "0", ".", "0", "0">>, <<"U", "P", "I">>, <<"2", "0", "2", "6", "-", "1", "1", "-", "0", "1", " ", "0", "8", ":", "1", "0", ":", "0", "0">>>>,
    <<<<"I", "v", "y">>, <<>>, <<"4", "7", ".", "6", "2">>, <<"2", ".", "3", "8">>, <<"5", "0", ".", "0", "0">>, <<"C", "a", "r", "d">>, <<"2", "0", "2", "6", "-", "1", "1", "-", "0", "1", " ", "0", "8", ":", "3", "0", ":", "0", "0">>>>>>

Absent == [exists |-> FALSE, store |-> <<>>]

\* the files the writer can find when it starts: none, a zero-length one, the
\* header row alone, the header row and records
InitialFiles ==
  {Absent, [exists |-> TRUE, store |-> <<>>],
   [exists |-> TRUE, store |-> <<HeaderRow>>],
   [exists |-> TRUE, store |-> ExampleStore]}

\* the files a report can find: the above, and the header row followed by any
\* rows
ReportFiles ==
  InitialFiles
  \cup {[exists |-> TRUE, store |-> <<HeaderRow>> \o h] :
          h \in SeqsUpTo(HistoricRows, MaxHistory)}

File == [exists |-> exists, store |-> store]

\* no front end runs: the core is called directly and no order is being built
DirectCaller ==
  /\ frontend = [program |-> "direct"]
  /\ order_items = <<>>

(***************************************************************************)
(* The state machine: one writer, one file, one clock.                     *)
(***************************************************************************)
Init ==
  /\ \E f \in InitialFiles :
       /\ exists = f.exists
       /\ store = f.store
       /\ initial = f
  /\ today = 1
  /\ call = [op |-> "none"]
  /\ saved = <<>>
  /\ DirectCaller

\* a call of save_transaction (of any copy of the core)
SaveTransaction ==
  /\ Len(saved) < MaxSaves
  /\ \E copy \in Copies, customer_name \in CustomerNames,
        items \in SaveOrders, payment_method \in PaymentMethods :
       \E r \in {save_transaction(copy, customer_name, items, payment_method,
                                  File, today)} :
          /\ exists' = r.file.exists
          /\ store' = r.file.store
          /\ call' = [op |-> "save_transaction", copy |-> copy,
                      customer_name |-> customer_name, items |-> items,
                      payment_method |-> payment_method,
                      raised |-> r.raised, ret |-> r.ret]
          /\ saved' = IF r.raised = "none"
                      THEN Append(saved, r.file.store[Len(r.file.store)])
                      ELSE saved
  /\ UNCHANGED <<today, initial, frontend, order_items>>

\* a call of show_daily_report
ShowDailyReport ==
  /\ \E r \in {show_daily_report(File, today)} :
       call' = [op |-> "show_daily_report", raised |-> r.raised, ret |-> r.ret]
  /\ exists' = FileAfterRead(File).exists
  /\ store' = FileAfterRead(File).store
  /\ UNCHANGED <<today, saved, initial, frontend, order_items>>

\* the calendar date changes
Midnight ==
  /\ today < MaxDay
  /\ today' = today + 1
  /\ call' = [op |-> "midnight"]
  /\ UNCHANGED <<exists, store, saved, initial, frontend, order_items>>

Next == SaveTransaction \/ ShowDailyReport \/ Midnight

Spec == Init /\ [][Next]_vars

(***************************************************************************)
(* The aggregator alone, over the files a report can find.                 *)
(***************************************************************************)
InitReport ==
  /\ \E f \in ReportFiles :
       /\ exists = f.exists
       /\ store = f.store
       /\ initial = f
  /\ today = 1
  /\ call = [op |-> "none"]
  /\ saved = <<>>
  /\ DirectCaller

NextReport == ShowDailyReport \/ Midnight

SpecReport == InitReport /\ [][NextReport]_vars

(***************************************************************************)
(* The aggregator over records of one day whose OrderedItems differ: the   *)
(* tally of item names and the choice of top_item.                         *)
(***************************************************************************)
MaxTallyRows == 3

\* a record of the first day with the given OrderedItems field
TallyRow(ordered_items) ==
  <<<<"C", "u", "s">>, ordered_items, <<"1", "0", ".", "0", "0">>, <<"0", ".", "5", "0">>,
    <<"1", "0", ".", "5", "0">>, <<"C", "a", "s", "h">>, Timestamp(1)>>

TallyRows ==
  {TallyRow(<<"L", "a", "t", "t", "e", " ", "x", "1">>),
   TallyRow(<<"V", "a", "d", "a", " ", "p", "a", "v", " ", "x", "3">>),
   TallyRow(<<"L", "a", "t", "t", "e", " ", "x", "2">>),
   TallyRow(<<"V", "a", "d", "a", " ", "p", "a", "v", " ", "x", "2", ";", " ", "L", "a", "t", "t", "e", " ", "x", "2">>),
   TallyRow(<<>>),
   TallyRow(<<"N", "/", "A", " ", "x", "2">>)}

InitTally ==
  /\ \E h \in SeqsUpTo(TallyRows, MaxTallyRows) :
       /\ exists = TRUE
       /\ store = <<HeaderRow>> \o h
       /\ initial = [exists |-> TRUE, store |-> <<HeaderRow>> \o h]
  /\ today = 1
  /\ call = [op |-> "none"]
  /\ saved = <<>>
  /\ DirectCaller

NextTally == ShowDailyReport \/ Midnight

SpecTally == InitTally /\ [][NextTally]_vars

(***************************************************************************)
(* The front ends: the prompt loop of cli_app.py, the handlers of gui.py,  *)
(* and a caller that builds OrderItem values itself.                       *)
(***************************************************************************)
MaxBills == 1

\* menus.py: item name and unit price (in mills), in the order of the dicts
DRINKS_MENU ==
  <<[name |-> <<"L", "a", "t", "t", "e">>, price |-> 120000],
    [name |-> <<"E", "s", "p", "r", "e", "s", "s", "o">>, price |-> 100000],
    [name |-> <<"C", "a", "p", "p", "u", "c", "c", "i", "n", "o">>, price |-> 130000],
    [name |-> <<"B", "l", "a", "c", "k", " ", "C", "o", "f", "f", "e", "e">>, price |-> 90000],
    [name |-> <<"M", "a", "s", "a", "l", "a", " ", "T", "e", "a">>, price |-> 60000]>>

SNACKS_MENU ==
  <<[name |-> <<"V", "a", "d", "a", " ", "p", "a", "v">>, price |-> 30000],
    [name |-> <<"S", "a", "m", "o", "s", "a">>, price |-> 25000],
    [name |-> <<"G", "r", "i", "l", "l", "e", "d", " ", "S", "a", "n", "d", "w", "i", "c", "h">>, price |-> 70000],
    [name |-> <<"F", "r", "e", "n", "c", "h", " ", "F", "r", "i", "e", "s">>, price |-> 80000],
    [name |-> <<"C", "h", "o", "c", "o", "l", "a", "t", "e", " ", "D", "o", "n", "u", "t">>, price |-> 60000]>>

\* get_all_items(): {**DRINKS_MENU, **SNACKS_MENU}
get_all_items == DRINKS_MENU \o SNACKS_MENU

\* name in all_items
InMenu(name) == \E i \in 1..Len(get_all_items) : get_all_items[i].name = name

\* all_items[name]
MenuPrice(name) ==
  get_all_items[CHOOSE i \in 1..Len(get_all_items) : get_all_items[i].name = name].price

PAYMENT_METHODS == <<<<"C", "a", "s", "h">>, <<"C", "a", "r", "d">>, <<"U", "P", "I">>>>

\* characters str.isdigit() accepts and int() refuses
SuperscriptDigits == {"²"}

\* str.isdigit(): non-empty and every character a digit
IsDigitText(s) ==
  /\ s # <<>>
  /\ \A i \in 1..Len(s) : IsDigit(s[i]) \/ s[i] \in SuperscriptDigits

\* name.lower() == "done"
IsDone(name) ==
  /\ Len(name) = 4
  /\ name[1] \in {"d", "D"}
  /\ name[2] \in {"o", "O"}
  /\ name[3] \in {"n", "N"}
  /\ name[4] \in {"e", "E"}

\* what the user types or is passed as a customer name
EntryCustomerNames == {<<>>, <<" ", "A", "l", " ">>}

\* what the user types at the item prompt
ItemNameLines == {<<"D", "o", "n", "e">>, <<" ", "L", "a", "t", "t", "e", " ">>, <<"V", "a", "d", "a", " ", "p", "a", "v">>, <<"C", "h", "a", "i">>}

\* what the user types as a quantity
QuantityLines == {<<" ", "1", " ">>, <<"0">>, <<"-", "1">>, <<"x">>, <<"²">>}

\* what the user types at the payment prompt
PaymentLines == {<<" ", "1">>, <<"9">>}

\* one pass of the loop of _prompt_quantity (cli_app.py), or the quantity part
\* of _on_add_to_order (gui.py), on the text typed: "again" when the text is
\* refused, "int" when int() raises, "ok" with the validated quantity
ReadQuantity(text) ==
  IF ~IsDigitText(Strip(text)) THEN [outcome |-> "again", quantity |-> 0]
  ELSE IF ParseInt(Strip(text)).raised # "none" THEN [outcome |-> "int", quantity |-> 0]
  ELSE IF validate_quantity(ParseInt(Strip(text)).ret).raised # "none"
  THEN [outcome |-> "again", quantity |-> 0]
  ELSE [outcome |-> "ok",
        quantity |-> validate_quantity(ParseInt(Strip(text)).ret).ret]

\* cli_app.py when it starts
CliStart ==
  [program |-> "cli", pc |-> "customer_name", customer_name |-> <<>>,
   item_name |-> <<>>]

AtCli(pc) == frontend.program = "cli" /\ frontend.pc = pc

\* run_cli_billing_flow: the customer name is read; an empty one ends the run
CliEnterCustomerName ==
  /\ AtCli("customer_name")
  /\ \E line \in EntryCustomerNames :
       frontend' = IF Strip(line) = <<>> THEN [frontend EXCEPT !.pc = "exit"]
                   ELSE [frontend EXCEPT !.pc = "item_name",
                                         !.customer_name = Strip(line)]
  /\ call' = [op |-> "run_cli_billing_flow", raised |-> "none"]
  /\ UNCHANGED <<exists, store, today, saved, initial, order_items>>

\* one line at the prompt of _prompt_item_name: "done" ends take_order_from_cli
\* (and an empty order ends the run), a menu name goes on to the quantity,
\* anything else is asked again
CliPromptItemName ==
  /\ AtCli("item_name")
  /\ \E line \in ItemNameLines :
       /\ InMenu(Strip(line)) => Len(order_items) < MaxOrderLen
       /\ frontend' =
            IF IsDone(Strip(line))
            THEN [frontend EXCEPT !.pc = IF order_items = <<>> THEN "exit"
                                         ELSE "payment"]
            ELSE IF InMenu(Strip(line))
            THEN [frontend EXCEPT !.pc = "quantity", !.item_name = Strip(line)]
            ELSE frontend
  /\ call' = [op |-> "_prompt_item_name", raised |-> "none"]
  /\ UNCHANGED <<exists, store, today, saved, initial, order_items>>

\* one line at the prompt of _prompt_quantity; the int() call is outside the
\* try block, so its ValueError ends the program
CliPromptQuantity ==
  /\ AtCli("quantity")
  /\ \E line \in QuantityLines :
       \E r \in {ReadQuantity(line)} :
         /\ frontend' = IF r.outcome = "ok" THEN [frontend EXCEPT !.pc = "item_name"]
                        ELSE IF r.outcome = "int" THEN [frontend EXCEPT !.pc = "exit"]
                        ELSE frontend
         /\ order_items' =
              IF r.outcome = "ok"
              THEN Append(order_items,
                          OrderItem(frontend.item_name, r.quantity,
                                    MenuPrice(frontend.item_name)))
              ELSE order_items
         /\ call' = [op |-> "_prompt_quantity",
                     raised |-> IF r.outcome = "int" THEN "ValueError" ELSE "none"]
  /\ UNCHANGED <<exists, store, today, saved, initial>>

\* one line at the prompt of _prompt_payment_method, then the save_transaction
\* of billing_core and the end of the run
CliPayAndSave ==
  /\ AtCli("payment")
  /\ \E line \in PaymentLines :
       IF Strip(line) \notin {<<"1">>, <<"2">>, <<"3">>}
       THEN /\ call' = [op |-> "_prompt_payment_method", raised |-> "none"]
            /\ UNCHANGED <<exists, store, saved, frontend>>
       ELSE \E r \in {save_transaction("billing_core", frontend.customer_name,
                                       order_items,
                                       PAYMENT_METHODS[ParseInt(Strip(line)).ret],
                                       File, today)} :
              /\ exists' = r.file.exists
              /\ store' = r.file.store
              /\ call' = [op |-> "save_transaction", copy |-> "billing_core",
                          customer_name |-> frontend.customer_name,
                          items |-> order_items,
                          payment_method |-> PAYMENT_METHODS[ParseInt(Strip(line)).ret],
                          raised |-> r.raised, ret |-> r.ret]
              /\ saved' = IF r.raised = "none"
                          THEN Append(saved, r.file.store[Len(r.file.store)])
                          ELSE saved
              /\ frontend' = [frontend EXCEPT !.pc = "exit"]
  /\ UNCHANGED <<today, initial, order_items>>

\* PosGUI.__init__: the Tk variables
GuiStart ==
  [program |-> "gui", customer_name_var |-> <<>>, quantity_var |-> <<"1">>,
   selected_item_var |-> <<>>, payment_method_var |-> PAYMENT_METHODS[1],
   subtotal_var |-> <<"0", ".", "0", "0">>, gst_var |-> <<"0", ".", "0", "0">>,
   total_var |-> <<"0", ".", "0", "0">>]

AtGui == frontend.program = "gui"

\* the menu buttons that are pressed
GuiButtons == {Latte, VadaPav}

\* a handler that leaves the three labels as they were
LabelsLeftAlone(gui, items) == gui

\* _recalculate_totals: the three labels show calculate_totals of the list
Recalculated(gui, items) ==
  [gui EXCEPT !.subtotal_var = Format2f(calculate_totals("pos_logic", items)[1]),
              !.gst_var = Format2f(calculate_totals("pos_logic", items)[2]),
              !.total_var = Format2f(calculate_totals("pos_logic", items)[3])]

\* the user types into the customer name entry
GuiTypeCustomerName ==
  /\ AtGui
  /\ \E text \in EntryCustomerNames :
       frontend' = [frontend EXCEPT !.customer_name_var = text]
  /\ call' = [op |-> "customer_name_var", raised |-> "none"]
  /\ UNCHANGED <<exists, store, today, saved, initial, order_items>>

\* the user types into the quantity entry
GuiTypeQuantity ==
  /\ AtGui
  /\ \E text \in QuantityLines :
       frontend' = [frontend EXCEPT !.quantity_var = text]
  /\ call' = [op |-> "quantity_var", raised |-> "none"]
  /\ UNCHANGED <<exists, store, today, saved, initial, order_items>>

\* _on_item_selected
GuiItemSelected ==
  /\ AtGui
  /\ \E item_name \in GuiButtons :
       frontend' = [frontend EXCEPT !.selected_item_var = item_name]
  /\ call' = [op |-> "_on_item_selected", raised |-> "none"]
  /\ UNCHANGED <<exists, store, today, saved, initial, order_items>>

\* the item _on_add_to_order accepts, if it accepts one: an item is selected,
\* the quantity text passes isdigit(), int() and validate_quantity (both
\* inside the try block), and the item is on the menu
GuiAccepts(gui) ==
  /\ Strip(gui.selected_item_var) # <<>>
  /\ ReadQuantity(gui.quantity_var).outcome = "ok"
  /\ InMenu(Strip(gui.selected_item_var))

\* _on_add_to_order
GuiAddToOrder ==
  /\ AtGui
  /\ GuiAccepts(frontend) => Len(order_items) < MaxOrderLen
  /\ order_items' =
       IF GuiAccepts(frontend)
       THEN Append(order_items,
                   OrderItem(Strip(frontend.selected_item_var),
                             ReadQuantity(frontend.quantity_var).quantity,
                             MenuPrice(Strip(frontend.selected_item_var))))
       ELSE order_items
  /\ frontend' = IF GuiAccepts(frontend) THEN Recalculated(frontend, order_items')
                 ELSE frontend
  /\ call' = [op |-> "_on_add_to_order", raised |-> "none"]
  /\ UNCHANGED <<exists, store, today, saved, initial>>

\* _on_generate_bill: the two warnings, then the save_transaction of pos_logic;
\* after a save the order is cleared, the totals recalculated and the quantity
\* entry reset
GuiGenerateBill ==
  /\ AtGui
  /\ IF Strip(frontend.customer_name_var) = <<>> \/ order_items = <<>>
     THEN /\ call' = [op |-> "_on_generate_bill", raised |-> "none"]
          /\ UNCHANGED <<exists, store, saved, frontend, order_items>>
     ELSE /\ Len(saved) < MaxBills
          /\ \E r \in {save_transaction("pos_logic",
                                        Strip(frontend.customer_name_var),
                                        order_items,
                                        Strip(frontend.payment_method_var),
                                        File, today)} :
               /\ exists' = r.file.exists
               /\ store' = r.file.store
               /\ call' = [op |-> "save_transaction", copy |-> "pos_logic",
                           customer_name |-> Strip(frontend.customer_name_var),
                           items |-> order_items,
                           payment_method |-> Strip(frontend.payment_method_var),
                           raised |-> r.raised, ret |-> r.ret]
               /\ saved' = IF r.raised = "none"
                           THEN Append(saved, r.file.store[Len(r.file.store)])
                           ELSE saved
               /\ order_items' = IF r.raised = "none" THEN <<>> ELSE order_items
               /\ frontend' =
                    IF r.raised = "none"
                    THEN [Recalculated(frontend, <<>>) EXCEPT !.quantity_var = <<"1">>]
                    ELSE frontend
  /\ UNCHANGED <<today, initial>>

\* quantities a caller of the core puts into an OrderItem
DirectQuantities == {-1, 0, 2}

AtDirect == frontend.program = "direct"

\* a caller constructs an OrderItem (the dataclass checks nothing) and adds it
\* to the list it will pass
DirectAppend ==
  /\ AtDirect
  /\ Len(order_items) < MaxOrderLen
  /\ \E q \in DirectQuantities :
       order_items' = Append(order_items, OrderItem(Latte, q, MenuPrice(Latte)))
  /\ call' = [op |-> "OrderItem", raised |-> "none"]
  /\ UNCHANGED <<exists, store, today, saved, initial, frontend>>

\* the caller passes its list to save_transaction of one of the copies
DirectSave ==
  /\ AtDirect
  /\ Len(saved) < MaxBills
  /\ \E copy \in Copies :
       \E r \in {save_transaction(copy, <<" ", "A", "l", " ">>, order_items,
                                  <<"C", "a", "s", "h">>, File, today)} :
         /\ exists' = r.file.exists
         /\ store' = r.file.store
         /\ call' = [op |-> "save_transaction", copy |-> copy,
                     customer_name |-> <<" ", "A", "l", " ">>, items |-> order_items,
                     payment_method |-> <<"C", "a", "s", "h">>,
                     raised |-> r.raised, ret |-> r.ret]
         /\ saved' = IF r.raised = "none"
                     THEN Append(saved, r.file.store[Len(r.file.store)])
                     ELSE saved
  /\ order_items' = <<>>
  /\ UNCHANGED <<today, initial, frontend>>

InitEntry ==
  /\ exists = FALSE
  /\ store = <<>>
  /\ initial = Absent
  /\ today = 1
  /\ call = [op |-> "none"]
  /\ saved = <<>>
  /\ order_items = <<>>
  /\ frontend \in {CliStart, GuiStart, [program |-> "direct"]}

NextEntry ==
  \/ CliEnterCustomerName
  \/ CliPromptItemName
  \/ CliPromptQuantity
  \/ CliPayAndSave
  \/ GuiTypeCustomerName
  \/ GuiTypeQuantity
  \/ GuiItemSelected
  \/ GuiAddToOrder
  \/ GuiGenerateBill
  \/ DirectAppend
  \/ DirectSave

SpecEntry == InitEntry /\ [][NextEntry]_vars

(***************************************************************************)
(* Two writers on one file.  Each runs save_transaction once; the steps of *)
(* a call that touch the file are separate system calls and interleave     *)
(* with the other writer's: the check of                                    *)
(* _ensure_sales_file_has_header, its open(mode="w") (which truncates),     *)
(* the header written when that file object is closed (at offset 0 of the  *)
(* file, whatever it holds by then), and the row written through            *)
(* open(mode="a") (at the end of the file).                                 *)
(* frontend.writer[w] is writer w's position and the locals of its call.   *)
(***************************************************************************)
Writers == {1, 2}

WriterCustomerName == <<<<" ", "A", "l", " ">>, <<"B", "o">>>>

NotCalled ==
  [pc |-> "idle", copy |-> "none", row |-> <<>>, totals |-> <<>>,
   passed |-> FALSE, raised |-> "none"]

AtWriter(w, pc) ==
  /\ frontend.program = "writers"
  /\ frontend.writer[w].pc = pc

\* writer w moves on with the locals `locals`
WriterMoves(w, locals) ==
  frontend' = [frontend EXCEPT !.writer[w] = locals]

\* the bytes of `row` written at offset 0: they replace the first line.  A
\* record of this model is shorter than the header line, and the line under
\* a header written here is the header or the only record of the file
WriteAtStart(st, row) ==
  IF st = <<>> THEN <<row>> ELSE <<row>> \o Tail(st)

\* save_transaction up to the call of _ensure_sales_file_has_header: the
\* argument checks, the totals, the encoded items, the timestamp
WriterCall(w) ==
  /\ AtWriter(w, "idle")
  /\ \E copy \in Copies, customer_name \in {<<>>, WriterCustomerName[w]},
        items \in SaveOrders :
       IF NameIsEmpty(customer_name) \/ items = <<>>
       THEN /\ WriterMoves(w, [NotCalled EXCEPT !.pc = "done", !.copy = copy,
                                                !.raised = "ValueError"])
            /\ call' = [op |-> "save_transaction", copy |-> copy,
                        customer_name |-> customer_name, items |-> items,
                        payment_method |-> <<"C", "a", "s", "h">>,
                        raised |-> "ValueError", ret |-> <<>>]
       ELSE /\ WriterMoves(w,
                 [NotCalled EXCEPT
                    !.pc = "check", !.copy = copy,
                    !.totals = calculate_totals(copy, items),
                    !.row = TransactionRow(customer_name, items, <<"C", "a", "s", "h">>,
                                           calculate_totals(copy, items), today)])
            /\ call' = [op |-> "save_transaction", copy |-> copy,
                        customer_name |-> customer_name, items |-> items,
                        payment_method |-> <<"C", "a", "s", "h">>,
                        raised |-> "running", ret |-> <<>>]
  /\ UNCHANGED <<exists, store, today, saved, initial, order_items>>

\* if csv_path.exists() and csv_path.stat().st_size > 0: return
WriterCheck(w) ==
  /\ AtWriter(w, "check")
  /\ WriterMoves(w, [frontend.writer[w] EXCEPT
                       !.pc = IF HasContent(exists, store) THEN "append"
                              ELSE "open_w",
                       !.passed = ~HasContent(exists, store)])
  /\ UNCHANGED <<exists, store, today, call, saved, initial, order_items>>

\* csv_path.open(mode="w"): the file is created or truncated
WriterOpenHeader(w) ==
  /\ AtWriter(w, "open_w")
  /\ exists' = TRUE
  /\ store' = <<>>
  /\ WriterMoves(w, [frontend.writer[w] EXCEPT !.pc = "write_header"])
  /\ UNCHANGED <<today, call, saved, initial, order_items>>

\* writer.writerow(header), flushed when the with block closes the file
WriterWriteHeader(w) ==
  /\ AtWriter(w, "write_header")
  /\ exists' = TRUE
  /\ store' = WriteAtStart(store, HeaderRow)
  /\ WriterMoves(w, [frontend.writer[w] EXCEPT !.pc = "append"])
  /\ UNCHANGED <<today, call, saved, initial, order_items>>

\* csv_path.open(mode="a") and writer.writerow(row)
WriterAppend(w) ==
  /\ AtWriter(w, "append")
  /\ exists' = AppendRow(File, frontend.writer[w].row).exists
  /\ store' = AppendRow(File, frontend.writer[w].row).store
  /\ WriterMoves(w, [frontend.writer[w] EXCEPT !.pc = "return"])
  /\ UNCHANGED <<today, call, saved, initial, order_items>>

\* return subtotal, gst_amount, final_total
WriterReturn(w) ==
  /\ AtWriter(w, "return")
  /\ WriterMoves(w, [frontend.writer[w] EXCEPT !.pc = "done"])
  /\ saved' = Append(saved, frontend.writer[w].row)
  /\ call' = [op |-> "save_transaction", copy |-> frontend.writer[w].copy,
              writer |-> w, raised |-> "none",
              ret |-> frontend.writer[w].totals]
  /\ UNCHANGED <<exists, store, today, initial, order_items>>

InitWriters ==
  /\ \E f \in InitialFiles :
       /\ exists = f.exists
       /\ store = f.store
       /\ initial = f
  /\ today = 1
  /\ call = [op |-> "none"]
  /\ saved = <<>>
  /\ order_items = <<>>
  /\ frontend = [program |-> "writers", writer |-> [w \in Writers |-> NotCalled]]

NextWriters ==
  \E w \in Writers :
    \/ WriterCall(w)
    \/ WriterCheck(w)
    \/ WriterOpenHeader(w)
    \/ WriterWriteHeader(w)
    \/ WriterAppend(w)
    \/ WriterReturn(w)

SpecWriters == InitWriters /\ [][NextWriters]_vars

(***************************************************************************)
(* One day at the counter: a caller saves bills into a store that did not  *)
(* exist, keeps the orders it passed and the triples it was returned       *)
(* (frontend.orders, frontend.returned), and runs the daily report; the    *)
(* date does not change.                                                    *)
(***************************************************************************)
MaxDaySaves == 2

\* orders of menu items (Latte 120.0, Vada pav 30.0, Samosa 25.0), and none
DayOrders ==
  {<<>>,
   <<OrderItem(Latte, 2, 120000), OrderItem(VadaPav, 1, 30000)>>,
   <<OrderItem(VadaPav, 1, 30000), OrderItem(VadaPav, 2, 30000)>>,
   <<OrderItem(Samosa, 3, 25000)>>}

DayCustomerNames == {<<>>, <<" ", "A", "l", " ">>}

AtDay == frontend.program = "day"

DaySave ==
  /\ AtDay
  /\ Len(saved) < MaxDaySaves
  /\ \E copy \in Copies, customer_name \in DayCustomerNames, items \in DayOrders,
        payment_method \in PaymentMethods :
       \E r \in {save_transaction(copy, customer_name, items, payment_method,
                                  File, today)} :
          /\ exists' = r.file.exists
          /\ store' = r.file.store
          /\ call' = [op |-> "save_transaction", copy |-> copy,
                      customer_name |-> customer_name, items |-> items,
                      payment_method |-> payment_method,
                      raised |-> r.raised, ret |-> r.ret]
          /\ saved' = IF r.raised = "none"
                      THEN Append(saved, r.file.store[Len(r.file.store)])
                      ELSE saved
          /\ frontend' = IF r.raised = "none"
                         THEN [frontend EXCEPT
                                 !.orders = Append(frontend.orders, items),
                                 !.returned = Append(frontend.returned, r.ret)]
                         ELSE frontend
  /\ UNCHANGED <<today, initial, order_items>>

DayReport ==
  /\ AtDay
  /\ \E r \in {show_daily_report(File, today)} :
       call' = [op |-> "show_daily_report", raised |-> r.raised, ret |-> r.ret]
  /\ exists' = FileAfterRead(File).exists
  /\ store' = FileAfterRead(File).store
  /\ UNCHANGED <<today, saved, initial, frontend, order_items>>

InitDay ==
  /\ exists = FALSE
  /\ store = <<>>
  /\ initial = Absent
  /\ today = 1
  /\ call = [op |-> "none"]
  /\ saved = <<>>
  /\ order_items = <<>>
  /\ frontend = [program |-> "day", orders |-> <<>>, returned |-> <<>>]

NextDay == DaySave \/ DayReport

SpecDay == InitDay /\ [][NextDay]_vars

(***************************************************************************)
(* The totals engine alone: Init draws a copy and an order, the action     *)
(* applies the copy's calculate_totals.  Prices are menu prices and one    *)
(* price with a sub-cent fraction (1.252).                                 *)
(***************************************************************************)
TotalsItems ==
  {OrderItem(Latte, q, 120000) : q \in 1..MaxQty}
  \cup {OrderItem(VadaPav, q, 30000) : q \in 1..MaxQty}
  \cup {OrderItem(<<"a">>, q, 1252) : q \in 1..MaxQty}

TotalsOrders == SeqsUpTo(TotalsItems, MaxOrderLen)

Idle ==
  /\ exists = FALSE
  /\ store = <<>>
  /\ initial = Absent
  /\ today = 1
  /\ saved = <<>>
  /\ DirectCaller

InitTotals ==
  /\ Idle
  /\ \E copy \in Copies, items \in TotalsOrders :
       call = [op |-> "order", copy |-> copy, items |-> items]

CalculateTotals ==
  /\ call.op = "order"
  /\ call' = [op |-> "calculate_totals", copy |-> call.copy, items |-> call.items,
              raised |-> "none", ret |-> calculate_totals(call.copy, call.items)]
  /\ UNCHANGED <<exists, store, today, saved, initial, frontend, order_items>>

NextTotals == CalculateTotals

SpecTotals == InitTotals /\ [][NextTotals]_vars

(***************************************************************************)
(* The totals engine in floats: Init draws an order of one item priced in  *)
(* whole cents (the sum of one float is that float, whatever the           *)
(* summation of the interpreter), the action applies each copy's           *)
(* calculate_totals to it.                                                  *)
(***************************************************************************)
MaxCents == 20

MaxFloatQty == 3

\* prices in cents: the small ones, and menu prices (120.0, 30.0, 25.0)
PricesInCents == (1..MaxCents) \cup {12000, 3000, 2500}

InitFloat ==
  /\ Idle
  /\ \E c \in PricesInCents, q \in 1..MaxFloatQty :
       call = [op |-> "order_float", cents |-> c,
               items |-> <<OrderItem(<<"a">>, q, float_of_hundredths(BigOfInt(c)))>>]

CalculateTotalsFloat ==
  /\ call.op = "order_float"
  /\ call' = [op |-> "calculate_totals_float", cents |-> call.cents,
              items |-> call.items,
              ret |-> [copy \in Copies |-> calculate_totals_float(copy, call.items)]]
  /\ UNCHANGED <<exists, store, today, saved, initial, frontend, order_items>>

NextFloat == CalculateTotalsFloat

SpecFloat == InitFloat /\ [][NextFloat]_vars

(***************************************************************************)
(* validate_quantity alone: Init draws an integer, the action applies the  *)
(* function.                                                               *)
(***************************************************************************)
MaxAbsQuantity == 30

Quantities == (-MaxAbsQuantity)..MaxAbsQuantity

InitQuantity ==
  /\ Idle
  /\ \E q \in Quantities : call = [op |-> "quantity", quantity |-> q]

ValidateQuantity ==
  /\ call.op = "quantity"
  /\ \E r \in {validate_quantity(call.quantity)} :
       call' = [op |-> "validate_quantity", quantity |-> call.quantity,
                raised |-> r.raised, ret |-> r.ret]
  /\ UNCHANGED <<exists, store, today, saved, initial, frontend, order_items>>

NextQuantity == ValidateQuantity

SpecQuantity == InitQuantity /\ [][NextQuantity]_vars

(***************************************************************************)
(* The codec alone: Init draws an order to encode or a text to decode.     *)
(***************************************************************************)
NameAlphabet == {"x", " "}

\* item names: no ";", no leading or trailing whitespace (the empty name is
\* one of them)
CodecNames ==
  {s \in SeqsUpTo(NameAlphabet, MaxNameLen) : Strip(s) = s}

CodecQuantities == {1, 2, 12}

CodecItems == {OrderItem(n, q, 0) : n \in CodecNames, q \in CodecQuantities}

CodecOrders == SeqsUpTo(CodecItems, MaxCodecOrderLen)

TextAlphabet == {"a", "x", " ", ";", "2", "-"}

CodecTexts == SeqsUpTo(TextAlphabet, MaxTextLen)

InitCodec ==
  /\ Idle
  /\ \/ \E items \in CodecOrders : call = [op |-> "order", items |-> items]
     \/ \E text \in CodecTexts : call = [op |-> "text", text |-> text]

FormatOrderItems ==
  /\ call.op = "order"
  /\ call' = [op |-> "format_order_items", items |-> call.items,
              ret |-> format_order_items(call.items)]
  /\ UNCHANGED <<exists, store, today, saved, initial, frontend, order_items>>

\* the aggregator decodes a field that format_order_items wrote
ParseEncoded ==
  /\ call.op = "format_order_items"
  /\ \E r \in {_parse_ordered_items(call.ret)} :
       call' = [op |-> "_parse_ordered_items", arg |-> call.ret, encoded |-> TRUE,
                items |-> call.items, raised |-> r.raised, ret |-> r.ret]
  /\ UNCHANGED <<exists, store, today, saved, initial, frontend, order_items>>

\* the aggregator decodes a field of any content
ParseText ==
  /\ call.op = "text"
  /\ \E r \in {_parse_ordered_items(call.text)} :
       call' = [op |-> "_parse_ordered_items", arg |-> call.text, encoded |-> FALSE,
                items |-> <<>>, raised |-> r.raised, ret |-> r.ret]
  /\ UNCHANGED <<exists, store, today, saved, initial, frontend, order_items>>

NextCodec == FormatOrderItems \/ ParseEncoded \/ ParseText

SpecCodec == InitCodec /\ [][NextCodec]_vars

(***************************************************************************)
(* Properties of the transaction store.                                    *)
(***************************************************************************)
IsPrefix(s, t) == Len(s) <= Len(t) /\ SubSeq(t, 1, Len(s)) = s

IsBlank(s) == \A i \in 1..Len(s) : s[i] \in Whitespace

\* C1: with one writer the store is append-only: across every call of
\* save_transaction (successful or failing) and of the daily report, the file
\* that existed still exists and its old row sequence is a prefix of the new.
C1_AppendOnly == [][(exists => exists') /\ IsPrefix(store, store')]_vars

\* two successful saves on top of the three records of the example store
C1_Witness ==
  /\ call.op = "save_transaction"
  /\ call.raised = "none"
  /\ initial.store = ExampleStore
  /\ Len(saved) >= 2
  /\ Len(store) = Len(ExampleStore) + Len(saved)

C2_Step ==
  (call'.op = "save_transaction" /\ call'.raised = "none") =>
    LET hadContent == exists /\ store # <<>>
        appended == store'[Len(store')]
    IN /\ exists'
       /\ store' = (IF hadContent THEN store ELSE <<HeaderRow>>) \o <<appended>>
       /\ Len(appended) = Len(HeaderRow)
       /\ appended # HeaderRow
       /\ appended[1] = Strip(call'.customer_name)

C2_FromEmpty ==
  (initial.store = <<>>) =>
    store = IF saved = <<>> THEN <<>> ELSE <<HeaderRow>> \o saved

\* C2: each successful save_transaction appends exactly one data row, after
\* writing the header row first if and only if the store was absent or empty;
\* so from an absent or empty store, n successful saves leave exactly the
\* header row followed by the n data rows in call order.
C2_HeaderThenRows == [][C2_Step]_vars /\ []C2_FromEmpty

\* two different rows saved into a store that was absent
C2_Witness ==
  /\ ~initial.exists
  /\ Len(saved) = 2
  /\ saved[1] # saved[2]
  /\ Len(store) = 3

\* C3: save_transaction raises ValueError whenever customer_name is empty or
\* whitespace only, and whenever the item sequence is empty, whatever the
\* payment method and the other argument are.
C3_InvalidOrderRejected ==
  (call.op = "save_transaction"
     /\ (IsBlank(call.customer_name) \/ call.items = <<>>))
  => call.raised = "ValueError"

\* a whitespace-only name with a non-empty order was rejected
C3_Witness ==
  /\ call.op = "save_transaction"
  /\ call.customer_name = <<" ", "\t">>
  /\ call.items # <<>>
  /\ call.raised = "ValueError"

(***************************************************************************)
(* Properties of the totals engine.                                        *)
(***************************************************************************)
LatteAndVadaPav == <<OrderItem(Latte, 2, 120000), OrderItem(VadaPav, 1, 30000)>>

\* C4: for every non-empty item list with non-negative unit prices, sub-cent
\* fractions included, every copy of calculate_totals returns
\* (subtotal, gst, final_total) with subtotal the sum of the line totals
\* rounded to 2dp, gst = round(returned subtotal * 0.05, 2) and
\* final_total = returned subtotal + returned gst; Latte 120.0 x2 plus
\* Vada pav 30.0 x1 gives (270.00, 13.50, 283.50).
C4_TotalsContract ==
  (call.op = "calculate_totals" /\ call.items # <<>>) =>
    /\ call.ret[1] = Round2(SumLineTotals(call.items), 1)
    /\ call.ret[2] = Round2(call.ret[1] * GST_RATE_PERCENT, 100)
    /\ call.ret[3] = call.ret[1] + call.ret[2]
    /\ (call.items = LatteAndVadaPav => call.ret = <<270000, 13500, 283500>>)

(***************************************************************************)
(* Properties of the codec.                                                *)
(***************************************************************************)
RECURSIVE QuantityOf(_, _)
QuantityOf(items, name) ==
  IF items = <<>> THEN 0
  ELSE (IF Head(items).name = name THEN Head(items).quantity ELSE 0)
       + QuantityOf(Tail(items), name)

\* the mapping from each distinct name of an order to the sum of its quantities
ExpectedTally(items) ==
  {<<items[i].name, QuantityOf(items, items[i].name)>> : i \in 1..Len(items)}

\* a Counter as a mapping
AsMapping(counter) ==
  {<<counter[i].name, counter[i].count>> : i \in 1..Len(counter)}

DecodesToTally ==
  /\ call.raised = "none"
  /\ AsMapping(call.ret) = ExpectedTally(call.items)
  /\ Len(call.ret) = Cardinality(ExpectedTally(call.items))

\* C5 as stated: for every order whose names hold no ";" and no leading or
\* trailing whitespace (names containing " x" included) and whose quantities
\* are positive, decoding the encoding gives exactly the mapping from each
\* distinct name to the sum of its quantities.
C5_RoundTripAnyName ==
  (call.op = "_parse_ordered_items" /\ call.encoded) => DecodesToTally

\* C5, amended: the same, for orders whose item names are also non-empty.
C5_RoundTripNonEmptyNames ==
  (call.op = "_parse_ordered_items" /\ call.encoded
     /\ \A i \in 1..Len(call.items) : call.items[i].name # <<>>)
  => DecodesToTally

\* an order that repeats a name containing " x" was encoded and decoded
C5_Witness ==
  /\ call.op = "_parse_ordered_items"
  /\ call.encoded
  /\ Len(call.items) = 2
  /\ call.items[1].name = <<"x", " ", "x">>
  /\ call.items[2].name = <<"x", " ", "x">>
  /\ call.ret = <<[name |-> <<"x", " ", "x">>, count |-> 13]>>

IsIntegerText(s) ==
  LET t == Strip(s)
      b == IF t # <<>> /\ t[1] \in {"+", "-"} THEN Tail(t) ELSE t
  IN b # <<>> /\ \A i \in 1..Len(b) : \E d \in 0..9 : b[i] = Digits[d + 1]

\* what the claim says one segment decodes to, where it says it; <<>> where it
\* says nothing (a blank segment, an integer quantity)
LenientSegment(piece) ==
  LET seg == Strip(piece)
      at == Occurrences(seg, <<" ", "x">>)
      last == CHOOSE k \in at : \A j \in at : j <= k
  IN IF seg = <<>> THEN <<>>
     ELSE IF at = {} THEN <<[name |-> seg, count |-> 1]>>
     ELSE IF ~IsIntegerText(SubSeq(seg, last + 2, Len(seg)))
     THEN <<[name |-> Strip(SubSeq(seg, 1, last - 1)), count |-> 1]>>
     ELSE <<>>

\* C6: decoding is total and lenient: _parse_ordered_items returns a mapping
\* for every input string and never raises; an empty or whitespace-only string
\* decodes to the empty mapping; a segment with no " x" decodes to
\* (whole segment, 1); a segment whose text after the last " x" is not an
\* integer decodes to (name, 1).
C6_DecodeTotalLenient ==
  (call.op = "_parse_ordered_items") =>
    LET pieces == SplitChar(call.arg, ";")
    IN /\ call.raised = "none"
       /\ IsBlank(call.arg) => call.ret = <<>>
       /\ Len(pieces) = 1 /\ LenientSegment(call.arg) # <<>>
            => call.ret = LenientSegment(call.arg)
       /\ \A j \in 1..Len(pieces) :
            LenientSegment(pieces[j]) # <<>>
              => LenientSegment(pieces[j])[1].name \in CounterNames(call.ret)

\* "a xa" was decoded to (a, 1): the text after " x" is no integer
C6_Witness ==
  /\ call.op = "_parse_ordered_items"
  /\ call.arg = <<"a", " ", "x", "a">>
  /\ call.raised = "none"
  /\ call.ret = <<[name |-> <<"a">>, count |-> 1]>>

(***************************************************************************)
(* Properties of the daily aggregator.                                     *)
(***************************************************************************)
Report(st) == show_daily_report([exists |-> TRUE, store |-> st], today)

Returned == [raised |-> call.raised, ret |-> call.ret]

\* the DateTime text starts with the clock's YYYY-MM-DD
DatedToday(ts) ==
  /\ Len(ts) >= 10
  /\ \A i \in 1..10 : ts[i] = DateStr(today)[i]

\* a row that carries all seven fields
IsFullRow(row) == Len(row) >= Len(HeaderRow)

IsTodaysRecord(row) == IsFullRow(row) /\ DatedToday(row[7])

IsOtherDateRecord(row) == IsFullRow(row) /\ ~DatedToday(row[7])

RECURSIVE RecordsOfToday(_)
RecordsOfToday(rows) ==
  IF rows = <<>> THEN <<>>
  ELSE (IF IsTodaysRecord(Head(rows)) THEN <<Head(rows)>> ELSE <<>>)
       \o RecordsOfToday(Tail(rows))

\* the records of the store that are dated today, in file order
TodaysRecords == IF store = <<>> THEN <<>> ELSE RecordsOfToday(Tail(store))

\* the value a field adds to a running total: its number, or nothing when it
\* is empty or no number
Contribution(field) ==
  IF field = <<>> \/ ParseFloat(field).raised # "none" THEN 0
  ELSE ParseFloat(field).ret

RECURSIVE SumOfField(_, _)
SumOfField(rows, k) ==
  IF rows = <<>> THEN 0
  ELSE Contribution(Head(rows)[k]) + SumOfField(Tail(rows), k)

IsMalformed(field) == field # <<>> /\ ParseFloat(field).raised # "none"

\* C7: in the daily fold a kept record whose FinalTotal is no number leaves
\* total_sales unchanged and one whose GST is no number leaves total_gst
\* unchanged, without raising, each field on its own: a record with a
\* malformed GST still adds its FinalTotal (283.50, 100.00 and 50.00 with one
\* GST "abc" give total_sales 433.50).
C7_MalformedFieldSkipped ==
  (call.op = "show_daily_report" /\ HasContent(exists, store)
     /\ _load_todays_transactions(File, today).raised = "none")
  => /\ call.raised = "none"
     /\ call.ret.total_sales = Round2(SumOfField(TodaysRecords, 5), 1)
     /\ call.ret.total_gst = Round2(SumOfField(TodaysRecords, 4), 1)
     /\ (store = ExampleStore /\ today = 1 => call.ret.total_sales = 433500)

\* a report over kept records of which one has a malformed GST and a
\* well-formed FinalTotal, and another a malformed FinalTotal
C7_Witness ==
  /\ call.op = "show_daily_report"
  /\ call.raised = "none"
  /\ Len(TodaysRecords) = 2
  /\ \E i \in 1..2 : IsMalformed(TodaysRecords[i][4]) /\ ~IsMalformed(TodaysRecords[i][5])
  /\ \E i \in 1..2 : IsMalformed(TodaysRecords[i][5])
  /\ call.ret.total_sales = 100000
  /\ call.ret.total_gst = 1250

\* C8: no single bad historical row can abort the daily report: for every
\* store content with the header row, rows with fewer than 7 columns or a
\* malformed DateTime included, the report completes and returns a summary,
\* such rows being excluded by the date filter.
C8_ReportNeverAborts ==
  (call.op = "show_daily_report" /\ HasContent(exists, store))
  => /\ call.raised = "none"
     /\ call.ret.transaction_count = Len(TodaysRecords)

RemoveAt(st, i) == SubSeq(st, 1, i - 1) \o SubSeq(st, i + 1, Len(st))

InsertAt(st, i, row) == SubSeq(st, 1, i - 1) \o <<row>> \o SubSeq(st, i, Len(st))

ReplaceAt(st, i, row) == [st EXCEPT ![i] = row]

OtherDateRows == {r \in HistoricRows : IsOtherDateRecord(r)}

\* C9: the daily summary depends only on the records whose DateTime starts
\* with today's YYYY-MM-DD: adding, removing or changing a record stamped
\* with another date changes none of total_sales, total_gst,
\* transaction_count and top_item.
C9_OtherDatesIgnored ==
  (call.op = "show_daily_report" /\ HasContent(exists, store))
  => /\ \A i \in 2..Len(store) :
          IsOtherDateRecord(store[i])
            => /\ Report(RemoveAt(store, i)) = Returned
               /\ \A r \in OtherDateRows : Report(ReplaceAt(store, i, r)) = Returned
     /\ \A i \in 2..(Len(store) + 1) :
          \A r \in OtherDateRows : Report(InsertAt(store, i, r)) = Returned

\* a report over a store that holds a record of today and one of another day
C9_Witness ==
  /\ call.op = "show_daily_report"
  /\ call.raised = "none"
  /\ call.ret.transaction_count = 1
  /\ \E i \in 2..Len(store) : IsOtherDateRecord(store[i])
  /\ \E i \in 2..Len(store) : IsTodaysRecord(store[i])

\* C10: aggregating a store that is absent, zero-length, header-only, or that
\* holds no record dated today returns exactly the zero summary
\* (0.00, 0.00, 0, "N/A").
C10_ZeroSummary ==
  (call.op = "show_daily_report"
     /\ (~exists \/ store = <<>> \/ store = <<HeaderRow>> \/ TodaysRecords = <<>>))
  => /\ call.raised = "none"
     /\ call.ret = ZeroSummary

(***************************************************************************)
(* Properties of top_item.                                                 *)
(***************************************************************************)
\* the mapping each kept record's OrderedItems field decodes to, in scan order
KeptTallies ==
  [i \in 1..Len(TodaysRecords) |-> _parse_ordered_items(TodaysRecords[i][2]).ret]

TalliedNames ==
  UNION {CounterNames(KeptTallies[i]) : i \in 1..Len(TodaysRecords)}

\* the quantity of a name summed over the first k kept records
RECURSIVE RunningTally(_, _)
RunningTally(name, k) ==
  IF k = 0 THEN 0
  ELSE RunningTally(name, k - 1) + CounterGet(KeptTallies[k], name)

SummedQuantity(name) == RunningTally(name, Len(TodaysRecords))

IsHighest(name) ==
  /\ name \in TalliedNames
  /\ \A n \in TalliedNames : SummedQuantity(n) <= SummedQuantity(name)

Reported == call.op = "show_daily_report" /\ call.raised = "none"

\* C11 as stated: top_item is a name whose quantity summed over all kept
\* records is the highest of all tallied names, and it is "N/A" exactly when
\* no item was tallied from any kept record.
C11_TopItemHighestOrNA ==
  Reported
  => /\ (TalliedNames # {} => IsHighest(call.ret.top_item))
     /\ (call.ret.top_item = NotAvailable <=> TalliedNames = {})

\* C11 amended: top_item is a name of the highest summed quantity when a name
\* was tallied and "N/A" when none was; provided no tallied name is itself
\* the text "N/A", it is "N/A" exactly when no item was tallied.
C11_TopItemHighest ==
  Reported
  => /\ (TalliedNames # {} => IsHighest(call.ret.top_item))
     /\ (TalliedNames = {} => call.ret.top_item = NotAvailable)
     /\ (NotAvailable \notin TalliedNames
           => (call.ret.top_item = NotAvailable <=> TalliedNames = {}))

\* the place of a name's first occurrence in the scan: the first kept record
\* that tallies it, and its place among the names of that record
FirstRecord(name) ==
  CHOOSE k \in 1..Len(TodaysRecords) :
    /\ name \in CounterNames(KeptTallies[k])
    /\ \A j \in 1..(k - 1) : name \notin CounterNames(KeptTallies[j])

PlaceInRecord(name, k) ==
  CHOOSE j \in 1..Len(KeptTallies[k]) : KeptTallies[k][j].name = name

OccursBefore(n, m) ==
  \/ FirstRecord(n) < FirstRecord(m)
  \/ /\ FirstRecord(n) = FirstRecord(m)
     /\ PlaceInRecord(n, FirstRecord(n)) < PlaceInRecord(m, FirstRecord(m))

\* a report over records that tally two names to different sums, the one
\* inserted second the higher
C11_Witness ==
  /\ Reported
  /\ TalliedNames = {Latte, VadaPav}
  /\ call.ret.top_item = VadaPav
  /\ FirstRecord(Latte) < FirstRecord(VadaPav)
  /\ SummedQuantity(Latte) < SummedQuantity(VadaPav)

\* C12: when several names tie for the highest summed quantity, top_item is
\* the tied name first inserted into the tally: the one whose first occurrence
\* comes earliest in the scan of kept records and of segments within a record.
C12_TieFirstInserted ==
  (Reported /\ TalliedNames # {})
  => \A n \in TalliedNames \ {call.ret.top_item} :
       IsHighest(n) => OccursBefore(call.ret.top_item, n)

\* a report over a tie of two names that first occur in the same record
C12_Witness ==
  /\ Reported
  /\ IsHighest(Latte)
  /\ IsHighest(VadaPav)
  /\ FirstRecord(Latte) = FirstRecord(VadaPav)
  /\ call.ret.top_item = VadaPav

\* the first kept record after which the running tally of a name has its
\* final value
ReachedFinalAt(name) ==
  CHOOSE k \in 1..Len(TodaysRecords) :
    /\ RunningTally(name, k) = SummedQuantity(name)
    /\ \A j \in 1..(k - 1) : RunningTally(name, j) # SummedQuantity(name)

\* exactly the two names n and m have the highest summed quantity
TiedForHighest(n, m) ==
  /\ n # m
  /\ {x \in TalliedNames : IsHighest(x)} = {n, m}

\* C13 as stated: when two names tie for the highest summed quantity across
\* the day (Latte 3 and Vada pav 3), top_item is the one whose running tally
\* reached its final value first during the scan, for every ordering of the
\* records.
C13_TieFirstToReachFinal ==
  Reported
  => \A n \in TalliedNames, m \in TalliedNames :
       (TiedForHighest(n, m) /\ ReachedFinalAt(n) < ReachedFinalAt(m))
         => call.ret.top_item = n

\* C13 amended: when two names tie for the highest summed quantity across the
\* day, top_item is the one whose running tally was started first during the
\* scan (the name first entered into the tally), for every ordering of the
\* records.
C13_TieFirstToStart ==
  Reported
  => \A n \in TalliedNames, m \in TalliedNames :
       (TiedForHighest(n, m) /\ FirstRecord(n) < FirstRecord(m))
         => call.ret.top_item # m

\* Latte 3 and Vada pav 3, Latte started first and completed last
C13_Witness ==
  /\ Reported
  /\ TalliedNames = {Latte, VadaPav}
  /\ SummedQuantity(Latte) = 3
  /\ SummedQuantity(VadaPav) = 3
  /\ FirstRecord(Latte) < FirstRecord(VadaPav)
  /\ ReachedFinalAt(VadaPav) < ReachedFinalAt(Latte)
  /\ call.ret.top_item = Latte

(***************************************************************************)
(* Properties of the report and of the saved record.                       *)
(***************************************************************************)
\* C14: the daily report is a pure read: a report call never creates,
\* truncates or modifies the store, and a report call that follows a report
\* call with no save in between (on the same calendar day) returns the same
\* summary.
C14_ReportPureRead ==
  [][call'.op = "show_daily_report"
       => /\ exists' = exists
          /\ store' = store
          /\ (call.op = "show_daily_report"
                => call'.raised = call.raised /\ call'.ret = call.ret)]_vars

\* a report was made of an absent file and the file is still absent
C14_Witness ==
  /\ call.op = "show_daily_report"
  /\ ~exists
  /\ call.ret = ZeroSummary

Saved == call.op = "save_transaction" /\ call.raised = "none"

LastRow == store[Len(store)]

\* the field is a number written with two decimals, of the given value
IsAmount(field, mills) ==
  /\ Len(field) >= 4
  /\ field[Len(field) - 2] = "."
  /\ ParseFloat(field).raised = "none"
  /\ ParseFloat(field).ret = mills

HasNoSurroundingWhitespace(s) ==
  s = <<>> \/ (s[1] \notin Whitespace /\ s[Len(s)] \notin Whitespace)

\* C15: the triple a successful save_transaction returns equals the Subtotal,
\* GST and FinalTotal fields of the row it appended (as 2dp values); that row
\* stores the customer name and the payment method with surrounding
\* whitespace trimmed, and its OrderedItems field is the codec encoding of the
\* order.
C15_ReturnedTripleIsStored ==
  Saved
  => /\ Len(LastRow) = 7
     /\ IsAmount(LastRow[3], call.ret[1])
     /\ IsAmount(LastRow[4], call.ret[2])
     /\ IsAmount(LastRow[5], call.ret[3])
     /\ LastRow[1] = Strip(call.customer_name)
     /\ HasNoSurroundingWhitespace(LastRow[1])
     /\ LastRow[6] = Strip(call.payment_method)
     /\ HasNoSurroundingWhitespace(LastRow[6])
     /\ LastRow[2] = format_order_items(call.items)

\* the padded name " Al " and method " UPI " were saved with the order
\* Latte x2, Vada pav x1
C15_Witness ==
  /\ Saved
  /\ call.customer_name = <<" ", "A", "l", " ">>
  /\ call.payment_method = <<" ", "U", "P", "I", " ">>
  /\ call.ret = <<270000, 13500, 283500>>
  /\ LastRow[1] = <<"A", "l">>
  /\ LastRow[2] = <<"L", "a", "t", "t", "e", " ", "x", "2", ";", " ", "V", "a", "d", "a", " ", "p", "a", "v", " ", "x", "1">>
  /\ LastRow[5] = <<"2", "8", "3", ".", "5", "0">>
  /\ LastRow[6] = <<"U", "P", "I">>

(***************************************************************************)
(* Properties of the quantity check and of the entry paths.                *)
(***************************************************************************)
\* C16: validate_quantity(q) fails with ValueError for every integer q <= 0
\* and returns q unchanged for every integer q >= 1.
C16_ValidateQuantity ==
  call.op = "validate_quantity"
  => /\ (call.quantity <= 0 => call.raised = "ValueError")
     /\ (call.quantity >= 1 => call.raised = "none" /\ call.ret = call.quantity)

\* the check was applied to 0
C16_Witness ==
  /\ call.op = "validate_quantity"
  /\ call.quantity = 0
  /\ call.raised = "ValueError"

AllAtLeastOne(items) == \A i \in 1..Len(items) : items[i].quantity >= 1

\* the quantities a stored record carries, as the aggregator reads them
RecordQuantitiesAtLeastOne(row) ==
  \A i \in 1..Len(_parse_ordered_items(row[2]).ret) :
    _parse_ordered_items(row[2]).ret[i].count >= 1

\* C17: every OrderItem in an order has quantity >= 1: no OrderItem accepted
\* into an order, none passed to save_transaction and no record appended to
\* the store carries a quantity <= 0, whichever entry path (CLI prompt loop,
\* GUI handlers, direct call of the core) built the order.
C17_QuantityAtLeastOne ==
  /\ AllAtLeastOne(order_items)
  /\ (call.op = "save_transaction" => AllAtLeastOne(call.items))
  /\ \A i \in 1..Len(saved) : RecordQuantitiesAtLeastOne(saved[i])

\* writer w's save_transaction returned its totals
SaveReturned(w) ==
  /\ frontend.writer[w].pc = "done"
  /\ frontend.writer[w].raised = "none"

InStore(row) == \E i \in 1..Len(store) : store[i] = row

\* writer w has opened the file with mode "w"
HasTruncated(w) ==
  /\ frontend.writer[w].passed
  /\ frontend.writer[w].pc \in {"write_header", "append", "return", "done"}

RecordLost(w) == SaveReturned(w) /\ ~InStore(frontend.writer[w].row)

\* C18: the header check, the header write and the row append of
\* save_transaction are separate steps, so with two concurrent writers a
\* record whose save returned can be missing from the store; it is missing
\* only when both writers passed the 'absent or empty' check and the other
\* writer's truncating header write came after the append (a file that had
\* content at the start loses no record).
C18_LostOnlyToOtherHeaderWrite ==
  frontend.program = "writers" =>
    \A w \in Writers :
      RecordLost(w) =>
        /\ ~HasContent(initial.exists, initial.store)
        /\ \A v \in Writers : frontend.writer[v].passed
        /\ \E v \in Writers \ {w} : HasTruncated(v)

\* both writers passed the check, both saves returned, one record is gone
C18_Witness ==
  /\ frontend.program = "writers"
  /\ \A w \in Writers : SaveReturned(w) /\ frontend.writer[w].passed
  /\ \E w \in Writers : RecordLost(w)

\* C19: calculate_totals of an empty item sequence returns
\* (0.00, 0.00, 0.00), in pos_logic.py, billing_core.py and coffeebot.py
\* alike, and each amount prints as 0.00.
C19_EmptyOrderTotalsZero ==
  (call.op = "calculate_totals" /\ call.items = <<>>) =>
    /\ call.ret = <<0, 0, 0>>
    /\ \A k \in 1..3 : Format2f(call.ret[k]) = <<"0", ".", "0", "0">>

C19_Witness ==
  /\ call.op = "calculate_totals"
  /\ call.items = <<>>
  /\ call.copy = "billing_core"
  /\ call.ret = <<0, 0, 0>>

\* the segment of one item: its name, " x", its quantity in decimal
Segment(item) == item.name \o <<" ", "x">> \o IntToStr(item.quantity)

\* the pieces of an encoded list between its ";" (no item name of these
\* orders holds one)
EncodedPieces(text) == SplitChar(text, ";")

\* C20: format_order_items emits one "<name> x<quantity>" segment per item,
\* in the order of the list, joined by "; ", duplicate names not merged: the
\* output has as many segments as the list has items, the i-th is the
\* segment of the i-th item, and the empty list encodes to the empty string.
C20_OneSegmentPerItem ==
  call.op = "format_order_items" =>
    IF call.items = <<>> THEN call.ret = <<>>
    ELSE /\ Len(EncodedPieces(call.ret)) = Len(call.items)
         /\ EncodedPieces(call.ret)[1] = Segment(call.items[1])
         /\ \A i \in 2..Len(call.items) :
              EncodedPieces(call.ret)[i] = <<" ">> \o Segment(call.items[i])

\* a name listed twice stays two segments
C20_Witness ==
  /\ call.op = "format_order_items"
  /\ Len(call.items) = 2
  /\ call.items[1].name = call.items[2].name
  /\ call.items[1].name # <<>>
  /\ call.items[1].quantity # call.items[2].quantity
  /\ Len(EncodedPieces(call.ret)) = 2

\* C21: transaction_count is the number of records the date filter keeps:
\* a kept record counts whether or not its FinalTotal or GST is a number and
\* whether or not its OrderedItems field is empty (whenever the filter
\* completes, the report returns and its count is the number of today's
\* records).
C21_CountsEveryKeptRecord ==
  (call.op = "show_daily_report"
     /\ _load_todays_transactions(File, today).raised = "none")
  => /\ call.raised = "none"
     /\ call.ret.transaction_count = Len(TodaysRecords)

\* three kept records, one with a malformed amount and one without items,
\* counted as three
C21_Witness ==
  /\ call.op = "show_daily_report"
  /\ call.raised = "none"
  /\ Len(TodaysRecords) = 3
  /\ \E i \in 1..3 : IsMalformed(TodaysRecords[i][4]) \/ IsMalformed(TodaysRecords[i][5])
  /\ \E i \in 1..3 : TodaysRecords[i][2] = <<>>
  /\ call.ret.transaction_count = 3

\* the quantity of `name` in one order, and over a sequence of orders
RECURSIVE QuantityInOrder(_, _)
QuantityInOrder(items, name) ==
  IF items = <<>> THEN 0
  ELSE (IF Head(items).name = name THEN Head(items).quantity ELSE 0)
       + QuantityInOrder(Tail(items), name)

RECURSIVE QuantityInOrders(_, _)
QuantityInOrders(orders, name) ==
  IF orders = <<>> THEN 0
  ELSE QuantityInOrder(Head(orders), name) + QuantityInOrders(Tail(orders), name)

\* the item names of the day's orders
DayNames == UNION {{o[j].name : j \in 1..Len(o)} : o \in DayOrders}

RECURSIVE SumReturned(_, _)
SumReturned(returned, k) ==
  IF returned = <<>> THEN 0 ELSE Head(returned)[k] + SumReturned(Tail(returned), k)

\* C22: after n >= 1 successful saves of one writer on one calendar day into
\* a store that was absent (menu items, quantities >= 1), the daily report
\* of that day returns transaction_count = n, total_sales = the sum of the
\* final totals the saves returned, total_gst = the sum of the gst amounts
\* they returned, and as top_item a name of the highest total ordered
\* quantity over the n orders.
C22_ReportAgreesWithSaves ==
  (frontend.program = "day" /\ call.op = "show_daily_report"
     /\ Len(frontend.returned) >= 1)
  => /\ call.raised = "none"
     /\ call.ret.transaction_count = Len(frontend.returned)
     /\ call.ret.total_sales = SumReturned(frontend.returned, 3)
     /\ call.ret.total_gst = SumReturned(frontend.returned, 2)
     /\ call.ret.top_item \in DayNames
     /\ \A n \in DayNames :
          QuantityInOrders(frontend.orders, n)
            <= QuantityInOrders(frontend.orders, call.ret.top_item)

\* two saves through different copies, then the report: 2 bills, 345.00 in
\* all (270.00 + 13.50 and 75.00 + 3.75 with tax: 362.25)
C22_Witness ==
  /\ frontend.program = "day"
  /\ call.op = "show_daily_report"
  /\ Len(frontend.returned) = 2
  /\ frontend.returned[1] # frontend.returned[2]
  /\ call.ret.transaction_count = 2
  /\ call.ret.total_sales = 362250
  /\ call.ret.top_item = Samosa

\* C23: a save_transaction call that fails validation (a customer name that
\* is empty or whitespace only, or an empty item list) has no effect on the
\* store: it does not create the file, writes no header and appends no row.
C23_FailingSaveNoEffect ==
  [][(call'.op = "save_transaction"
        /\ (Strip(call'.customer_name) = <<>> \/ call'.items = <<>>))
     => /\ call'.raised = "ValueError"
        /\ exists' = exists
        /\ store' = store
        /\ saved' = saved]_vars

\* a call with a whitespace-only name and an order failed and the file that
\* was absent is still absent
C23_Witness ==
  /\ call.op = "save_transaction"
  /\ call.raised = "ValueError"
  /\ call.customer_name = <<" ", "\t">>
  /\ call.items # <<>>
  /\ ~exists
  /\ initial = Absent

\* C24: the three copies of calculate_totals return the same triple for
\* every order whose unit prices are whole-cent amounts and whose quantities
\* are positive integers (billing_core derives gst and final_total from the
\* unrounded sum, pos_logic and coffeebot from the rounded subtotal).
C24_CopiesAgreeOnWholeCents ==
  call.op = "calculate_totals_float" =>
    \A c1, c2 \in Copies : call.ret[c1] = call.ret[c2]

ZeroText == <<"0", ".", "0", "0">>

\* the three labels show calculate_totals of the order list
DisplayedTotalsOf(gui, items) ==
  /\ gui.subtotal_var = Format2f(calculate_totals("pos_logic", items)[1])
  /\ gui.gst_var = Format2f(calculate_totals("pos_logic", items)[2])
  /\ gui.total_var = Format2f(calculate_totals("pos_logic", items)[3])

\* the step is a generate-bill event of the GUI
IsGenerateBill ==
  /\ frontend.program = "gui"
  /\ call'.op \in {"_on_generate_bill", "save_transaction"}

\* what a generate-bill event does, by the name entry and the order it finds
GenerateBillEffect ==
  IF Strip(frontend.customer_name_var) = <<>> \/ order_items = <<>>
  THEN /\ exists' = exists
       /\ store' = store
       /\ saved' = saved
       /\ order_items' = order_items
  ELSE /\ exists'
       /\ Len(store') = (IF HasContent(exists, store) THEN Len(store) ELSE 1) + 1
       /\ HasContent(exists, store) => IsPrefix(store, store')
       /\ store'[Len(store')][1] = Strip(frontend.customer_name_var)
       /\ store'[Len(store')][2] = format_order_items(order_items)
       /\ Len(saved') = Len(saved) + 1
       /\ order_items' = <<>>
       /\ frontend'.subtotal_var = ZeroText
       /\ frontend'.gst_var = ZeroText
       /\ frontend'.total_var = ZeroText

\* C25: the GUI's order state machine: after any sequence of item-select,
\* add-to-order and generate-bill events the displayed subtotal, GST and
\* total are calculate_totals of the current order list; a generate-bill
\* event with an empty (trimmed) customer name or an empty order saves
\* nothing and leaves the order list unchanged; a successful generate-bill
\* appends exactly one record and leaves the order list empty with the
\* displayed totals 0.00.
C25_GuiOrderStateMachine ==
  /\ [](frontend.program = "gui" => DisplayedTotalsOf(frontend, order_items))
  /\ [][IsGenerateBill => GenerateBillEffect]_vars

\* a bill of two items was generated: one record, the order empty again, the
\* labels back to 0.00
C25_Witness ==
  /\ frontend.program = "gui"
  /\ call.op = "save_transaction"
  /\ call.raised = "none"
  /\ Len(call.items) = 2
  /\ Len(saved) = 1
  /\ order_items = <<>>
  /\ frontend.total_var = ZeroText

====
